---------------------------- MODULE Spec2Model ----------------------------
(***************************************************************************)
(* A model of the event-ingestion and usage-aggregation core of the        *)
(* Cloudflare Workers metering API (cf/api): EventsService, the /events    *)
(* and /usage routes, the meters routes the core depends on, and the       *)
(* KV-backed CacheService.                                                  *)
(*                                                                         *)
(* Conventions.  An optional JavaScript value is a sequence of length 0    *)
(* (undefined / null) or 1 (the value).  A Date is a record [s, ms]: whole  *)
(* seconds since the Unix epoch and the millisecond part.  A JSON property  *)
(* value is a record [type, num, str]; a string that parseFloat may read   *)
(* is a sequence of one-character strings.                                  *)
(***************************************************************************)
EXTENDS Integers, Sequences, FiniteSets, TLC

VARIABLES
    meters,     \* rows of the meters relation
    subjects,   \* rows of the subjects relation
    events,     \* rows of the events relation, in insertion order
    kv,         \* the KV namespace behind CacheService: key -> CacheEntry
    now,        \* the wall clock (Date.now()), in whole seconds
    nextId,     \* how many row ids crypto.randomUUID() has handed out
    resp,       \* the response to the last request handled
    idem,       \* history: per (namespace, idempotency key), what the calls so far did
    calls,      \* the POST /events requests in flight, each at one of its awaits
    kvUp        \* whether the KV namespace answers (FALSE: its operations throw)

vars == <<meters, subjects, events, kv, now, nextId, resp, idem, calls, kvUp>>

envVars == <<calls, kvUp>>

dbVars == <<meters, subjects, events, nextId>>

----------------------------------------------------------------------------
(* Optional values and JSON values *)

Undefined == <<>>
Some(x) == <<x>>
IsDefined(o) == o # <<>>
Get(o) == o[1]

JNumber(n) == [type |-> "number", num |-> n, str |-> <<>>]
JString(s) == [type |-> "string", num |-> 0, str |-> s]
JBoolean == [type |-> "boolean", num |-> 0, str |-> <<>>]
JNull == [type |-> "object", num |-> 0, str |-> <<>>]

NaN == [nan |-> TRUE, val |-> 0]
Num(n) == [nan |-> FALSE, val |-> n]

Digits == {"0", "1", "2", "3", "4", "5", "6", "7", "8", "9"}
DigitVal(c) ==
    CASE c = "0" -> 0 [] c = "1" -> 1 [] c = "2" -> 2 [] c = "3" -> 3
      [] c = "4" -> 4 [] c = "5" -> 5 [] c = "6" -> 6 [] c = "7" -> 7
      [] c = "8" -> 8 [] c = "9" -> 9

RECURSIVE SkipWhitespace(_, _)
SkipWhitespace(s, i) ==
    IF i <= Len(s) /\ s[i] = " " THEN SkipWhitespace(s, i + 1) ELSE i

RECURSIVE ReadDigits(_, _, _)
ReadDigits(s, i, acc) ==
    IF i <= Len(s) /\ s[i] \in Digits
    THEN ReadDigits(s, i + 1, acc * 10 + DigitVal(s[i]))
    ELSE acc

(* parseFloat on integer literals: leading whitespace is skipped, an        *)
(* optional sign and the longest run of digits are read, anything after     *)
(* them is ignored; no digit at all gives NaN.                              *)
parseFloat(s) ==
    LET i == SkipWhitespace(s, 1)
        signed == i <= Len(s) /\ s[i] \in {"-", "+"}
        j == IF signed THEN i + 1 ELSE i
    IN  IF j <= Len(s) /\ s[j] \in Digits
        THEN Num((IF signed /\ s[i] = "-" THEN -1 ELSE 1) * ReadDigits(s, j, 0))
        ELSE NaN

(* JavaScript truthiness of an optional string *)
TruthyString(o) == IsDefined(o) /\ Get(o) # ""

----------------------------------------------------------------------------
(* EventsService.extractEventValue *)

(* properties[key]: undefined when the bag has no such key *)
PropertyAt(properties, key) ==
    IF key \in DOMAIN properties THEN Some(properties[key]) ELSE Undefined

extractEventValueNoProperty(eventData, meter) ==
    IF IsDefined(eventData.value) THEN Get(eventData.value)
    ELSE IF meter.aggregation = "COUNT" THEN 1
    ELSE 0

extractEventValueExplicitFirst(eventData, meter) ==
    IF IsDefined(eventData.value) THEN Get(eventData.value)
    ELSE LET value == IF TruthyString(meter.valueProperty) /\ IsDefined(eventData.properties)
                      THEN PropertyAt(Get(eventData.properties), Get(meter.valueProperty))
                      ELSE Undefined
         IN  IF IsDefined(value) /\ Get(value).type = "number" THEN Get(value).num
             ELSE IF meter.aggregation = "COUNT" THEN 1
             ELSE 0

extractEventValue(eventData, meter) ==
    LET value == IF TruthyString(meter.valueProperty) /\ IsDefined(eventData.properties)
                 THEN PropertyAt(Get(eventData.properties), Get(meter.valueProperty))
                 ELSE Undefined
        parsed == IF IsDefined(value) /\ Get(value).type = "string"
                  THEN parseFloat(Get(value).str)
                  ELSE NaN
    IN  IF IsDefined(value) /\ Get(value).type = "number" THEN Get(value).num
        ELSE IF ~parsed.nan THEN parsed.val
        ELSE extractEventValueNoProperty(eventData, meter)

----------------------------------------------------------------------------
(* Strings that reach a cache key are sequences of tokens: a caller's       *)
(* string is a sequence of its characters, a literal of the code is one     *)
(* token (no caller character is a literal of the code, except ":").        *)

StartsWith(s, prefix) ==
    Len(prefix) <= Len(s) /\ SubSeq(s, 1, Len(prefix)) = prefix

RECURSIVE Join(_)
Join(parts) ==
    IF Len(parts) = 0 THEN <<>>
    ELSE IF Len(parts) = 1 THEN parts[1]
    ELSE parts[1] \o <<":">> \o Join(Tail(parts))

(* CacheService.createKey: `${prefix}:${parts.join(":")}` *)
createKey(prefix, parts) == <<prefix, ":">> \o Join(parts)

----------------------------------------------------------------------------
(* CacheService over the KV namespace.  KV drops an entry expirationTtl     *)
(* seconds after the put; CacheService keeps its own timestamp and ttl in   *)
(* the entry.  Times are whole seconds: the code's comparison               *)
(* now > timestamp + ttl * 1000 is between the same numbers in ms.          *)

DefaultTTL == 300

KvExpire(store, t) ==
    [k \in {q \in DOMAIN store : t < store[q].timestamp + store[q].ttl} |-> store[k]]

(* Each method wraps its KV calls in try/catch: while KV fails (~kvUp) a get *)
(* answers null and a set, delete or invalidatePattern changes nothing.     *)

cacheDelete(store, key) ==
    IF ~kvUp THEN store
    ELSE [k \in DOMAIN store \ {key} |-> store[k]]

(* a get that reads the entries whether KV fails or not *)
cacheGetDespiteFailure(store, key, t) ==
    IF key \notin DOMAIN store THEN [value |-> Undefined, store |-> store]
    ELSE LET cached == store[key]
         IN  IF t > cached.timestamp + cached.ttl
             THEN [value |-> Undefined, store |-> cacheDelete(store, key)]
             ELSE [value |-> Some(cached.data), store |-> store]

(* get: the value read, and the store afterwards (an entry found expired is *)
(* deleted)                                                                 *)
cacheGet(store, key, t) ==
    IF ~kvUp \/ key \notin DOMAIN store THEN [value |-> Undefined, store |-> store]
    ELSE LET cached == store[key]
         IN  IF t > cached.timestamp + cached.ttl
             THEN [value |-> Undefined, store |-> cacheDelete(store, key)]
             ELSE [value |-> Some(cached.data), store |-> store]

cacheSet(store, key, data, ttl, t) ==
    LET entry == [data |-> data, timestamp |-> t,
                  ttl |-> IF ttl # 0 THEN ttl ELSE DefaultTTL]
    IN  IF ~kvUp THEN store
        ELSE [k \in DOMAIN store \cup {key} |-> IF k = key THEN entry ELSE store[k]]

invalidatePattern(store, prefix) ==
    IF ~kvUp THEN store
    ELSE [k \in {q \in DOMAIN store : ~StartsWith(q, prefix)} |-> store[k]]

----------------------------------------------------------------------------
(* Instants and their texts.  An ISO-8601 UTC text "YYYY-MM-DDTHH:MM:SS.mmmZ"*)
(* is the record of its fields; a Date is [s, ms]: whole seconds since the  *)
(* epoch and the milliseconds within the second.                            *)

Iso(Y, M, D, h, m, s, ms) == [Y |-> Y, M |-> M, D |-> D, h |-> h, m |-> m, s |-> s, ms |-> ms]

(* days since 1970-01-01 of a date of the proleptic Gregorian calendar *)
DaysFromCivil(Y, M, D) ==
    LET y == IF M <= 2 THEN Y - 1 ELSE Y
        era == y \div 400
        yoe == y - era * 400
        doy == (153 * (IF M > 2 THEN M - 3 ELSE M + 9) + 2) \div 5 + D - 1
        doe == yoe * 365 + yoe \div 4 - yoe \div 100 + doy
    IN  era * 146097 + doe - 719468

CivilFromDays(days) ==
    LET z == days + 719468
        era == z \div 146097
        doe == z - era * 146097
        yoe == (doe - doe \div 1460 + doe \div 36524 - doe \div 146096) \div 365
        doy == doe - (365 * yoe + yoe \div 4 - yoe \div 100)
        mp == (5 * doy + 2) \div 153
        M == IF mp < 10 THEN mp + 3 ELSE mp - 9
    IN  [Y |-> yoe + era * 400 + (IF M <= 2 THEN 1 ELSE 0),
         M |-> M,
         D |-> doy - (153 * mp + 2) \div 5 + 1]

(* new Date(text) *)
NewDate(iso) ==
    [s |-> DaysFromCivil(iso.Y, iso.M, iso.D) * 86400 + iso.h * 3600 + iso.m * 60 + iso.s,
     ms |-> iso.ms]

(* SQLite datetime(seconds, 'unixepoch'): the calendar fields of the instant *)
datetime(seconds) ==
    LET date == CivilFromDays(seconds \div 86400)
        rest == seconds % 86400
    IN  Iso(date.Y, date.M, date.D, rest \div 3600, (rest % 3600) \div 60, rest % 60, 0)

(* Date.prototype.toISOString *)
toISOString(date) == [datetime(date.s) EXCEPT !.ms = date.ms]

----------------------------------------------------------------------------
(* The relations.  A database is the record [meters, subjects, events,      *)
(* nextId]; rows are kept in insertion order.  An events row keeps the      *)
(* driver value of its timestamp (column mode "timestamp": whole seconds)   *)
(* and, as history only, the Date the caller sent (at).                     *)

EmptyDb == [meters |-> <<>>, subjects |-> <<>>, events |-> <<>>, nextId |-> 0]

(* integer("...", {mode: "timestamp"}): Math.floor(date.getTime() / 1000) *)
mapToDriverValue(date) == date.s

(* the row a SELECT ... LIMIT 1 without ORDER BY returns: any matching row; *)
(* pick says which end of the insertion order the engine scans from         *)
LimitOne(rows, pick) ==
    IF Len(rows) = 0 THEN Undefined
    ELSE IF pick = "first" THEN Some(rows[1])
    ELSE Some(rows[Len(rows)])

(* a findOrCreateSubject that inserts without looking the key up *)
findOrCreateSubjectAlwaysInsert(db, namespace, subjectKey) ==
    LET newSubject == [id |-> db.nextId + 1, namespace |-> namespace,
                       key |-> subjectKey, displayName |-> subjectKey]
    IN  [db |-> [db EXCEPT !.subjects = Append(@, newSubject), !.nextId = @ + 1],
         subject |-> newSubject]

(* EventsService.findOrCreateSubject *)
findOrCreateSubject(db, namespace, subjectKey) ==
    LET Match(row) == row.namespace = namespace /\ row.key = subjectKey
        existingSubjects == SelectSeq(db.subjects, Match)
        newSubject == [id |-> db.nextId + 1, namespace |-> namespace,
                       key |-> subjectKey, displayName |-> subjectKey]
    IN  IF Len(existingSubjects) > 0
        THEN [db |-> db, subject |-> existingSubjects[1]]
        ELSE [db |-> [db EXCEPT !.subjects = Append(@, newSubject),
                                 !.nextId = @ + 1],
              subject |-> newSubject]

(* EventsService.findMeterByEventType *)
findMeterByEventType(db, namespace, eventType, pick) ==
    LET Match(row) == row.namespace = namespace /\ row.eventType = eventType
    IN  LimitOne(SelectSeq(db.meters, Match), pick)

NoMeterMessage(eventType) == "No meter found for event type: " \o eventType

(* the events row ingestEvent inserts *)
EventRow(id, meter, subject, eventData, t) ==
    LET timestamp == IF IsDefined(eventData.timestamp)
                     THEN NewDate(Get(eventData.timestamp))
                     ELSE [s |-> t, ms |-> 0]
    IN  [id |-> id, meterId |-> meter.id, subjectId |-> subject.id,
         timestamp |-> mapToDriverValue(timestamp),
         value |-> extractEventValue(eventData, meter),
         at |-> timestamp]

(* an ingestEvent that undoes the subject insert when no meter matches *)
ingestEventRollback(db, namespace, eventData, pick, t) ==
    LET found == findOrCreateSubject(db, namespace, eventData.subject)
        meter == findMeterByEventType(found.db, namespace, eventData.type, pick)
        id == found.db.nextId + 1
    IN  IF ~IsDefined(meter)
        THEN [db |-> db, ok |-> FALSE, eventId |-> 0,
              message |-> NoMeterMessage(eventData.type)]
        ELSE [db |-> [found.db EXCEPT
                        !.events = Append(@, EventRow(id, Get(meter), found.subject, eventData, t)),
                        !.nextId = id],
              ok |-> TRUE, eventId |-> id, message |-> ""]

(* EventsService.ingestEvent: the database afterwards and either the new    *)
(* event's id or the message of the Error thrown                            *)
ingestEvent(db, namespace, eventData, pick, t) ==
    LET found == findOrCreateSubject(db, namespace, eventData.subject)
        meter == findMeterByEventType(found.db, namespace, eventData.type, pick)
        id == found.db.nextId + 1
    IN  IF ~IsDefined(meter)
        THEN [db |-> found.db, ok |-> FALSE, eventId |-> 0,
              message |-> NoMeterMessage(eventData.type)]
        ELSE [db |-> [found.db EXCEPT
                        !.events = Append(@, EventRow(id, Get(meter), found.subject, eventData, t)),
                        !.nextId = id],
              ok |-> TRUE, eventId |-> id, message |-> ""]

----------------------------------------------------------------------------
(* EventsService.ingestBatchEvents *)

chunkSize == 100

(* indexOf were the payloads compared by their content *)
indexOfByContent(chunk, obj) ==
    LET at == {j \in 1..Len(chunk) : chunk[j].data = obj.data}
    IN  IF at = {} THEN -1
        ELSE (CHOOSE j \in at : \A q \in at : j <= q) - 1

(* chunk.indexOf(eventData): the payloads of a parsed body are distinct     *)
(* objects, found by reference; the first position that holds the object    *)
indexOf(chunk, obj) ==
    LET at == {j \in 1..Len(chunk) : chunk[j].ref = obj.ref}
    IN  IF at = {} THEN -1
        ELSE (CHOOSE j \in at : \A q \in at : j <= q) - 1

ErrorEntry(index, message) == "Event " \o ToString(index) \o ": " \o message

(* one pass of the inner loop, for (const eventData of chunk), from the     *)
(* j-th element of the chunk on; st is [db, results].  nextId is never      *)
(* negative: reading it makes the state reached so far a value before the   *)
(* next pass, which keeps the evaluation of long batches shallow            *)
RECURSIVE ingestChunk(_, _, _, _, _, _, _)
ingestChunk(st, namespace, chunk, i, j, pick, t) ==
    IF st.db.nextId < 0 \/ j > Len(chunk) THEN st
    ELSE LET eventData == chunk[j]
             r == ingestEvent(st.db, namespace, eventData.data, pick, t)
             results == st.results
             next ==
                IF r.ok
                THEN [db |-> r.db,
                      results |-> [results EXCEPT !.processedEvents = @ + 1]]
                ELSE [db |-> r.db,
                      results |-> [results EXCEPT
                          !.failedEvents = @ + 1,
                          !.errors = Append(@, ErrorEntry(i + indexOf(chunk, eventData), r.message))]]
         IN  ingestChunk(next, namespace, chunk, i, j + 1, pick, t)

Min(a, b) == IF a < b THEN a ELSE b

(* the outer loop, for (let i = 0; i < events.length; i += chunkSize) *)
RECURSIVE ingestChunksFrom(_, _, _, _, _, _)
ingestChunksFrom(st, namespace, refs, i, pick, t) ==
    IF ~(i < Len(refs)) THEN st
    ELSE LET chunk == SubSeq(refs, i + 1, Min(i + chunkSize, Len(refs)))
         IN  ingestChunksFrom(ingestChunk(st, namespace, chunk, i, 1, pick, t),
                              namespace, refs, i + chunkSize, pick, t)

ingestBatchEventsStopAtFailure(db, namespace, batchEvents, pick, t) ==
    LET n == Len(batchEvents)
        Ok(k) == IsDefined(findMeterByEventType(db, namespace, batchEvents[k].type, pick))
        firstBad == IF \E k \in 1..n : ~Ok(k)
                    THEN CHOOSE k \in 1..n : ~Ok(k) /\ \A q \in 1..(k - 1) : Ok(q)
                    ELSE n + 1
        refs == [k \in 1..Min(firstBad, n) |-> [ref |-> k, data |-> batchEvents[k]]]
        st == ingestChunksFrom(
                [db |-> db,
                 results |-> [totalEvents |-> n, processedEvents |-> 0,
                              failedEvents |-> 0, errors |-> <<>>]],
                namespace, refs, 0, pick, t)
    IN  st

(* EventsService.ingestBatchEvents: the database afterwards and the results *)
ingestBatchEvents(db, namespace, batchEvents, pick, t) ==
    LET refs == [k \in 1..Len(batchEvents) |-> [ref |-> k, data |-> batchEvents[k]]]
    IN  ingestChunksFrom(
            [db |-> db,
             results |-> [totalEvents |-> Len(batchEvents), processedEvents |-> 0,
                          failedEvents |-> 0, errors |-> <<>>]],
            namespace, refs, 0, pick, t)

----------------------------------------------------------------------------
(* Request validation (validate("json", schema)) and the idempotency        *)
(* helpers of the events routes                                             *)

MaxBatchSize == 1000
IdempotencyTTL == 86400
MaxIdempotencyKeyLength == 255

(* IngestEventSchema: subject and type are strings of at least 1 character  *)
(* (no type sent here starts with a reserved prefix)                        *)
validIngestEvent(data) == data.subject # "" /\ data.type # ""

validBatchAnySize(batchEvents) ==
    /\ Len(batchEvents) >= 1
    /\ \A k \in 1..Len(batchEvents) : validIngestEvent(batchEvents[k])

(* BatchIngestEventSchema: z.array(IngestEventSchema).min(1).max(1000) *)
validBatch(batchEvents) ==
    /\ Len(batchEvents) >= 1
    /\ Len(batchEvents) <= MaxBatchSize
    /\ \A k \in 1..Len(batchEvents) : validIngestEvent(batchEvents[k])

(* validateIdempotencyKey: an empty header counts as no key *)
validIdempotencyKey(key) ==
    ~IsDefined(key) \/ Len(Get(key)) = 0
        \/ ~(Len(Get(key)) < 1 \/ Len(Get(key)) > MaxIdempotencyKeyLength)

HasKey(key) == IsDefined(key) /\ Len(Get(key)) > 0

idempotencyCacheKey(key, namespace, operation) ==
    createKey("idempotency", <<namespace, <<operation>>, key>>)

checkIdempotency(store, key, namespace, operation, t) ==
    cacheGet(store, idempotencyCacheKey(key, namespace, operation), t)

storeIdempotencyResultNever(store, key, namespace, operation, result, t) == store

storeIdempotencyResult(store, key, namespace, operation, result, t) ==
    cacheSet(store, idempotencyCacheKey(key, namespace, operation), result,
             IdempotencyTTL, t)

(* `events:${namespace}` *)
eventsPrefix(namespace) == <<"events", ":">> \o namespace

----------------------------------------------------------------------------
(* The state *)

Db == [meters |-> meters, subjects |-> subjects, events |-> events, nextId |-> nextId]

SetDb(db) ==
    /\ meters' = db.meters
    /\ subjects' = db.subjects
    /\ events' = db.events
    /\ nextId' = db.nextId

NoHist == [none |-> TRUE]
NoResp == [kind |-> "none", namespace |-> <<>>, status |-> 0, code |-> "",
           body |-> <<>>, hist |-> NoHist]

NoIdem == [st |-> "none", id |-> 0, at |-> 0, rows |-> 0]

(* history of the single-event calls made with one (namespace, key): the    *)
(* first call answered 201 (its eventId and time) and the number of events  *)
(* rows inserted by calls with the key from then until IdempotencyTTL later *)
IdemAfter(prior, within, status, eventId, inserted, t) ==
    IF within THEN [prior EXCEPT !.rows = @ + inserted]
    ELSE IF status = 201 THEN [st |-> "done", id |-> eventId, at |-> t, rows |-> inserted]
    ELSE NoIdem

----------------------------------------------------------------------------
(* POST /events: what the handler (behind its validators) does to the       *)
(* database and the cache, and what it answers                              *)

SubjectKnown(db, namespace, subjectKey) ==
    \E i \in 1..Len(db.subjects) :
        db.subjects[i].namespace = namespace /\ db.subjects[i].key = subjectKey

MetersOfType(db, namespace, eventType) ==
    {i \in 1..Len(db.meters) :
        db.meters[i].namespace = namespace /\ db.meters[i].eventType = eventType}

(* a POST /events that stores the result under the key before it looks at  *)
(* the outcome of the ingest                                                *)
postEventStoreAlways(db, store, namespace, idempotencyKey, data, pick, t) ==
    LET hit == IF HasKey(idempotencyKey)
               THEN checkIdempotency(store, Get(idempotencyKey), namespace, "single-event", t)
               ELSE [value |-> Undefined, store |-> store]
        r == ingestEvent(db, namespace, data, pick, t)
        result == [eventId |-> r.eventId, processed |-> TRUE]
        stored == IF HasKey(idempotencyKey)
                  THEN storeIdempotencyResult(hit.store, Get(idempotencyKey), namespace,
                                              "single-event", result, t)
                  ELSE hit.store
    IN  IF ~validIdempotencyKey(idempotencyKey)
        THEN [db |-> db, store |-> store, status |-> 400,
              code |-> "INVALID_IDEMPOTENCY_KEY", body |-> <<>>]
        ELSE IF ~validIngestEvent(data)
        THEN [db |-> db, store |-> store, status |-> 400,
              code |-> "VALIDATION_ERROR", body |-> <<>>]
        ELSE IF IsDefined(hit.value)
        THEN [db |-> db, store |-> hit.store, status |-> 200, code |-> "",
              body |-> Get(hit.value)]
        ELSE IF r.ok
        THEN [db |-> r.db, store |-> invalidatePattern(stored, eventsPrefix(namespace)),
              status |-> 201, code |-> "",
              body |-> [eventId |-> r.eventId, processed |-> TRUE, timestamp |-> t]]
        ELSE [db |-> r.db, store |-> stored, status |-> 500,
              code |-> "INTERNAL_ERROR", body |-> <<>>]

(* POST /events *)
postEvent(db, store, namespace, idempotencyKey, data, pick, t) ==
    LET hit == IF HasKey(idempotencyKey)
               THEN checkIdempotency(store, Get(idempotencyKey), namespace, "single-event", t)
               ELSE [value |-> Undefined, store |-> store]
        r == ingestEvent(db, namespace, data, pick, t)
        result == [eventId |-> r.eventId, processed |-> TRUE]
        stored == IF HasKey(idempotencyKey)
                  THEN storeIdempotencyResult(hit.store, Get(idempotencyKey), namespace,
                                              "single-event", result, t)
                  ELSE hit.store
    IN  IF ~validIdempotencyKey(idempotencyKey)
        THEN [db |-> db, store |-> store, status |-> 400,
              code |-> "INVALID_IDEMPOTENCY_KEY", body |-> <<>>]
        ELSE IF ~validIngestEvent(data)
        THEN [db |-> db, store |-> store, status |-> 400,
              code |-> "VALIDATION_ERROR", body |-> <<>>]
        ELSE IF IsDefined(hit.value)
        THEN [db |-> db, store |-> hit.store, status |-> 200, code |-> "",
              body |-> Get(hit.value)]
        ELSE IF r.ok
        THEN [db |-> r.db, store |-> invalidatePattern(stored, eventsPrefix(namespace)),
              status |-> 201, code |-> "",
              body |-> [eventId |-> r.eventId, processed |-> TRUE, timestamp |-> t]]
        ELSE [db |-> r.db, store |-> hit.store, status |-> 500,
              code |-> "INTERNAL_ERROR", body |-> <<>>]

MaxEvents == 2

PostEvent(namespace, idempotencyKey, data, pick) ==
    \E o \in {postEvent(Db, kv, namespace, idempotencyKey, data, pick, now)} :
    LET prior == IF HasKey(idempotencyKey)
                 THEN idem[<<namespace, Get(idempotencyKey)>>] ELSE NoIdem
        within == prior.st = "done" /\ now < prior.at + IdempotencyTTL
        inserted == Len(o.db.events) - Len(events)
    IN  /\ SetDb(o.db)
        /\ kv' = o.store
        /\ resp' = [kind |-> "event", namespace |-> namespace, status |-> o.status,
                    code |-> o.code, body |-> o.body,
                    hist |-> [key |-> idempotencyKey, data |-> data, kvUp |-> kvUp,
                              later |-> within, firstId |-> prior.id,
                              newEvents |-> inserted,
                              newSubjects |-> Len(o.db.subjects) - Len(subjects),
                              subjectKnown |-> SubjectKnown(Db, namespace, data.subject),
                              matching |-> MetersOfType(Db, namespace, data.type),
                              live |-> {i \in MetersOfType(Db, namespace, data.type) :
                                            ~IsDefined(meters[i].deletedAt)}]]
        /\ idem' = IF HasKey(idempotencyKey) /\ o.status \in {200, 201, 500}
                   THEN [idem EXCEPT ![<<namespace, Get(idempotencyKey)>>] =
                            IdemAfter(prior, within, o.status,
                                      IF o.status = 201 THEN o.body.eventId ELSE 0,
                                      inserted, now)]
                   ELSE idem
        /\ UNCHANGED <<now, envVars>>

----------------------------------------------------------------------------
(* POST /events/batch *)

ErrorDetailsLimit == 10

batchBody(results, t) ==
    [totalEvents |-> results.totalEvents,
     processedEvents |-> results.processedEvents,
     failedEvents |-> results.failedEvents,
     errors |-> IF Len(results.errors) > 0
                THEN Some(SubSeq(results.errors, 1, Min(ErrorDetailsLimit, Len(results.errors))))
                ELSE Undefined,
     timestamp |-> t]

(* a POST /events/batch that stores the result only of a batch without     *)
(* failures                                                                 *)
postBatchStoreOnSuccess(db, store, namespace, idempotencyKey, batchEvents, pick, t) ==
    LET hit == IF HasKey(idempotencyKey)
               THEN checkIdempotency(store, Get(idempotencyKey), namespace, "batch-events", t)
               ELSE [value |-> Undefined, store |-> store]
        r == ingestBatchEvents(db, namespace, batchEvents, pick, t)
        stored == IF HasKey(idempotencyKey) /\ r.results.failedEvents = 0
                  THEN storeIdempotencyResult(hit.store, Get(idempotencyKey), namespace,
                                              "batch-events", r.results, t)
                  ELSE hit.store
        none == [totalEvents |-> 0, processedEvents |-> 0, failedEvents |-> 0, errors |-> <<>>]
    IN  IF ~validIdempotencyKey(idempotencyKey)
        THEN [db |-> db, store |-> store, status |-> 400,
              code |-> "INVALID_IDEMPOTENCY_KEY", body |-> <<>>, results |-> none,
              wrote |-> FALSE]
        ELSE IF ~validBatch(batchEvents)
        THEN [db |-> db, store |-> store, status |-> 400,
              code |-> "VALIDATION_ERROR", body |-> <<>>, results |-> none,
              wrote |-> FALSE]
        ELSE IF IsDefined(hit.value)
        THEN [db |-> db, store |-> hit.store, status |-> 200, code |-> "",
              body |-> Get(hit.value), results |-> none, wrote |-> FALSE]
        ELSE IF Len(batchEvents) > MaxBatchSize
        THEN [db |-> db, store |-> hit.store, status |-> 400,
              code |-> "BATCH_TOO_LARGE", body |-> <<>>, results |-> none,
              wrote |-> FALSE]
        ELSE [db |-> r.db, store |-> invalidatePattern(stored, eventsPrefix(namespace)),
              status |-> IF r.results.failedEvents > 0 THEN 207 ELSE 201,
              code |-> "", body |-> batchBody(r.results, t), results |-> r.results,
              wrote |-> HasKey(idempotencyKey) /\ r.results.failedEvents = 0]

(* POST /events/batch *)
postBatch(db, store, namespace, idempotencyKey, batchEvents, pick, t) ==
    LET hit == IF HasKey(idempotencyKey)
               THEN checkIdempotency(store, Get(idempotencyKey), namespace, "batch-events", t)
               ELSE [value |-> Undefined, store |-> store]
        r == ingestBatchEvents(db, namespace, batchEvents, pick, t)
        stored == IF HasKey(idempotencyKey)
                  THEN storeIdempotencyResult(hit.store, Get(idempotencyKey), namespace,
                                              "batch-events", r.results, t)
                  ELSE hit.store
        none == [totalEvents |-> 0, processedEvents |-> 0, failedEvents |-> 0, errors |-> <<>>]
    IN  IF ~validIdempotencyKey(idempotencyKey)
        THEN [db |-> db, store |-> store, status |-> 400,
              code |-> "INVALID_IDEMPOTENCY_KEY", body |-> <<>>, results |-> none,
              wrote |-> FALSE]
        ELSE IF ~validBatch(batchEvents)
        THEN [db |-> db, store |-> store, status |-> 400,
              code |-> "VALIDATION_ERROR", body |-> <<>>, results |-> none,
              wrote |-> FALSE]
        ELSE IF IsDefined(hit.value)
        THEN [db |-> db, store |-> hit.store, status |-> 200, code |-> "",
              body |-> Get(hit.value), results |-> none, wrote |-> FALSE]
        ELSE IF Len(batchEvents) > MaxBatchSize
        THEN [db |-> db, store |-> hit.store, status |-> 400,
              code |-> "BATCH_TOO_LARGE", body |-> <<>>, results |-> none,
              wrote |-> FALSE]
        ELSE [db |-> r.db, store |-> invalidatePattern(stored, eventsPrefix(namespace)),
              status |-> IF r.results.failedEvents > 0 THEN 207 ELSE 201,
              code |-> "", body |-> batchBody(r.results, t), results |-> r.results,
              wrote |-> HasKey(idempotencyKey)]

PostBatch(namespace, idempotencyKey, batchEvents, pick) ==
    \E o \in {postBatch(Db, kv, namespace, idempotencyKey, batchEvents, pick, now)} :
        /\ Len(o.db.events) <= MaxEvents
        /\ SetDb(o.db)
        /\ kv' = o.store
        /\ resp' = [kind |-> "batch", namespace |-> namespace, status |-> o.status,
                    code |-> o.code, body |-> o.body,
                    hist |-> [key |-> idempotencyKey, size |-> Len(batchEvents),
                              kvUp |-> kvUp,
                              results |-> o.results,
                              newEvents |-> Len(o.db.events) - Len(events),
                              newSubjects |-> Len(o.db.subjects) - Len(subjects),
                              noMeter |-> IF Len(batchEvents) > MaxBatchSize THEN {}
                                          ELSE {k \in 1..Len(batchEvents) :
                                                  MetersOfType(Db, namespace, batchEvents[k].type) = {}},
                              types |-> IF Len(batchEvents) > MaxBatchSize THEN <<>>
                                        ELSE [k \in 1..Len(batchEvents) |->
                                                  batchEvents[k].type],
                              subjects |-> IF Len(batchEvents) > MaxBatchSize THEN <<>>
                                           ELSE [k \in 1..Len(batchEvents) |->
                                                     batchEvents[k].subject],
                              stored |-> o.wrote,
                              kvSame |-> o.store = kv]]
        /\ UNCHANGED <<now, idem, envVars>>

----------------------------------------------------------------------------
(* The meters routes the core depends on: POST /meters, DELETE /meters/:id  *)
(* and GET /meters                                                          *)

MetersListTTL == 300

(* `meters:${namespace}` *)
metersPrefix(namespace) == <<"meters", ":">> \o namespace

(* a POST /meters that inserts without looking for the key *)
createMeterUnchecked(db, store, namespace, data, t) ==
    LET newMeter == [id |-> db.nextId + 1, namespace |-> namespace, key |-> data.key,
                     aggregation |-> data.aggregation, eventType |-> data.eventType,
                     valueProperty |-> data.valueProperty, deletedAt |-> Undefined]
    IN  [db |-> [db EXCEPT !.meters = Append(@, newMeter), !.nextId = @ + 1],
         store |-> invalidatePattern(store, metersPrefix(namespace)),
         status |-> 201, code |-> "", body |-> newMeter]

(* POST /meters *)
createMeter(db, store, namespace, data, t) ==
    LET Match(row) == row.namespace = namespace /\ row.key = data.key
        existing == SelectSeq(db.meters, Match)
        newMeter == [id |-> db.nextId + 1, namespace |-> namespace, key |-> data.key,
                     aggregation |-> data.aggregation, eventType |-> data.eventType,
                     valueProperty |-> data.valueProperty, deletedAt |-> Undefined]
    IN  IF Len(existing) > 0
        THEN [db |-> db, store |-> store, status |-> 409,
              code |-> "METER_ALREADY_EXISTS", body |-> <<>>]
        ELSE [db |-> [db EXCEPT !.meters = Append(@, newMeter), !.nextId = @ + 1],
              store |-> invalidatePattern(store, metersPrefix(namespace)),
              status |-> 201, code |-> "", body |-> newMeter]

deleteMeter(db, store, namespace, id, t) ==
    LET hits == {i \in 1..Len(db.meters) :
                    db.meters[i].id = id /\ db.meters[i].namespace = namespace}
        updated == [i \in 1..Len(db.meters) |->
                        IF i \in hits THEN [db.meters[i] EXCEPT !.deletedAt = Some(t)]
                        ELSE db.meters[i]]
    IN  IF hits = {}
        THEN [db |-> db, store |-> store, status |-> 404,
              code |-> "METER_NOT_FOUND", body |-> <<>>]
        ELSE [db |-> [db EXCEPT !.meters = updated],
              store |-> cacheDelete(invalidatePattern(store, metersPrefix(namespace)),
                                    createKey("meter", <<namespace, <<ToString(id)>>>>)),
              status |-> 200, code |-> "", body |-> [id |-> id, deletedAt |-> Some(t)]]

(* JSON.stringify(query) of the validated list query *)
listQueryJson(includeDeleted) ==
    <<"{includeDeleted:", IF includeDeleted THEN "true" ELSE "false", "}">>

(* GET /meters; the page is the set of the ids listed (every row fits the   *)
(* first page)                                                              *)
listMeters(db, store, namespace, includeDeleted, t) ==
    LET cacheKey == createKey("meters", <<namespace, listQueryJson(includeDeleted)>>)
        cached == cacheGet(store, cacheKey, t)
        rows == {i \in 1..Len(db.meters) :
                    /\ db.meters[i].namespace = namespace
                    /\ (~includeDeleted => ~IsDefined(db.meters[i].deletedAt))}
        result == [data |-> {db.meters[i].id : i \in rows}, totalCount |-> Cardinality(rows)]
    IN  IF IsDefined(cached.value)
        THEN [db |-> db, store |-> cached.store, status |-> 200, code |-> "",
              body |-> Get(cached.value)]
        ELSE [db |-> db, store |-> cacheSet(cached.store, cacheKey, result, MetersListTTL, t),
              status |-> 200, code |-> "", body |-> result]

MaxMeters == 2

CreateMeter(namespace, data) ==
    \E o \in {createMeter(Db, kv, namespace, data, now)} :
        /\ Len(o.db.meters) <= MaxMeters
        /\ SetDb(o.db)
        /\ kv' = o.store
        /\ resp' = [kind |-> "createMeter", namespace |-> namespace, status |-> o.status,
                    code |-> o.code, body |-> o.body,
                    hist |-> [data |-> data,
                              present |-> \E i \in 1..Len(meters) :
                                             /\ meters[i].namespace = namespace
                                             /\ meters[i].key = data.key,
                              dbSame |-> o.db = Db,
                              kvSame |-> o.store = kv]]
        /\ UNCHANGED <<now, idem, envVars>>

DeleteMeter(namespace, id) ==
    \E o \in {deleteMeter(Db, kv, namespace, id, now)} :
        /\ SetDb(o.db)
        /\ kv' = o.store
        /\ resp' = [kind |-> "deleteMeter", namespace |-> namespace, status |-> o.status,
                    code |-> o.code, body |-> o.body, hist |-> NoHist]
        /\ UNCHANGED <<now, idem, envVars>>

ListMeters(namespace, includeDeleted) ==
    \E o \in {listMeters(Db, kv, namespace, includeDeleted, now)} :
        /\ SetDb(o.db)
        /\ kv' = o.store
        /\ resp' = [kind |-> "listMeters", namespace |-> namespace, status |-> o.status,
                    code |-> o.code, body |-> o.body,
                    hist |-> [includeDeleted |-> includeDeleted]]
        /\ UNCHANGED <<now, idem, envVars>>

----------------------------------------------------------------------------
(* GET /usage/query and GET /usage/report.  A query is the record of the    *)
(* parameters sent: meterId, subjectId, from, to and windowSize are         *)
(* optional, groupBy is the sequence of the values given for it.            *)

UsageTTL == 60
TopSubjectsLimit == 10
NoId == 0       \* the id "" of `query.meterId || ""`

(* timeBucketExpr: the text SQLite computes from the timestamp column of a  *)
(* row, e.g. strftime('%Y-%m-%dT%H:%M:00.000Z',                             *)
(* datetime(timestamp / 1000, 'unixepoch')); "/" divides integers           *)
timeBucketExpr(windowSize, timestamp) ==
    LET dt == datetime(timestamp \div 1000)
    IN  CASE windowSize = "SECOND" -> dt
          [] windowSize = "MINUTE" -> [dt EXCEPT !.s = 0]
          [] windowSize = "HOUR" -> [dt EXCEPT !.m = 0, !.s = 0]
          [] windowSize = "DAY" -> [dt EXCEPT !.h = 0, !.m = 0, !.s = 0]
          [] windowSize = "MONTH" -> [dt EXCEPT !.D = 1, !.h = 0, !.m = 0, !.s = 0]
          [] OTHER -> [dt EXCEPT !.m = 0, !.s = 0]

(* the order of two texts of the fixed-width form: field by field *)
IsoKey(iso) == <<iso.Y, iso.M, iso.D, iso.h, iso.m, iso.s, iso.ms>>

RECURSIVE LexLess(_, _)
LexLess(a, b) ==
    IF Len(a) = 0 THEN FALSE
    ELSE IF a[1] # b[1] THEN a[1] < b[1]
    ELSE LexLess(Tail(a), Tail(b))

TextLess(a, b) == LexLess(IsoKey(a), IsoKey(b))

(* an ORDER BY ... LIMIT 1: the first bucket only *)
OrderByLimitOne(texts) ==
    IF texts = {} THEN <<>>
    ELSE <<CHOOSE x \in texts : \A y \in texts : ~TextLess(y, x)>>

(* ORDER BY of the distinct bucket texts of a GROUP BY *)
RECURSIVE OrderBy(_)
OrderBy(texts) ==
    IF texts = {} THEN <<>>
    ELSE LET first == CHOOSE x \in texts : \A y \in texts : ~TextLess(y, x)
         IN  <<first>> \o OrderBy(texts \ {first})

(* sum(events.value) over the rows at the given positions *)
RECURSIVE SumValues(_, _)
SumValues(rows, positions) ==
    IF positions = {} THEN 0
    ELSE LET i == CHOOSE k \in positions : TRUE
         IN  rows[i].value + SumValues(rows, positions \ {i})

(* validate("query", UsageQuerySchema): a parameter given once reaches the  *)
(* schema as a string, so a single groupBy value is not an array            *)
validUsageQuery(query) ==
    IsDefined(query.from) /\ IsDefined(query.to) /\ Len(query.groupBy) # 1

(* validate("query", UsageQuerySchema.partial()) *)
validUsageReport(query) == Len(query.groupBy) # 1

(* a guard that lets every query through *)
groupByNever(query) == FALSE

(* query.groupBy && query.groupBy.length > 0 *)
groupByRequested(query) == Len(query.groupBy) > 0

(* a dispatch that ignores the meter *)
aggregationAlwaysSum(db, meterId) == "SUM"

(* the aggregation the handlers choose: COUNT for a COUNT meter, else SUM *)
aggregationFor(db, meterId) ==
    LET Match(row) == row.id = Get(meterId)
        m == LimitOne(SelectSeq(db.meters, Match), "first")
    IN  IF IsDefined(meterId) /\ IsDefined(m) /\ Get(m).aggregation = "COUNT"
        THEN "COUNT" ELSE "SUM"

(* the positions of the events rows the WHERE clause keeps *)
whereConditions(db, query, from, to) ==
    {i \in 1..Len(db.events) :
        /\ db.events[i].timestamp >= mapToDriverValue(from)
        /\ db.events[i].timestamp <= mapToDriverValue(to)
        /\ IsDefined(query.meterId) => db.events[i].meterId = Get(query.meterId)
        /\ IsDefined(query.subjectId) => db.events[i].subjectId = Get(query.subjectId)}

aggregate(db, agg, positions) ==
    IF agg = "COUNT" THEN Cardinality(positions) ELSE SumValues(db.events, positions)

UsageRejected(store, code) ==
    [store |-> store, status |-> 400, code |-> code, body |-> <<>>,
     dbReads |-> 0, cacheOps |-> 0, fromCache |-> FALSE]

(* GET /usage/query *)
usageQuery(db, store, namespace, query, t) ==
    LET from == NewDate(Get(query.from))
        to == NewDate(Get(query.to))
        windowSize == IF IsDefined(query.windowSize) THEN Get(query.windowSize) ELSE "HOUR"
        cacheKey == createKey("usage:query",
                              <<namespace, <<[query EXCEPT !.windowSize = Some(windowSize)]>>>>)
        cached == cacheGet(store, cacheKey, t)
        agg == aggregationFor(db, query.meterId)
        matched == whereConditions(db, query, from, to)
        Bucket(i) == timeBucketExpr(windowSize, db.events[i].timestamp)
        buckets == OrderBy({Bucket(i) : i \in matched})
        data == [k \in 1..Len(buckets) |->
                    [timestamp |-> buckets[k],
                     value |-> aggregate(db, agg, {i \in matched : Bucket(i) = buckets[k]})]]
        response == [meterId |-> IF IsDefined(query.meterId) THEN Get(query.meterId) ELSE NoId,
                     subjectId |-> query.subjectId,
                     from |-> Get(query.from), to |-> Get(query.to),
                     windowSize |-> windowSize, data |-> data]
    IN  IF ~validUsageQuery(query) THEN UsageRejected(store, "VALIDATION_ERROR")
        ELSE IF groupByRequested(query) THEN UsageRejected(store, "GROUP_BY_NOT_SUPPORTED")
        ELSE IF IsDefined(cached.value)
        THEN [store |-> cached.store, status |-> 200, code |-> "",
              body |-> Get(cached.value), dbReads |-> 0, cacheOps |-> 1, fromCache |-> TRUE]
        ELSE [store |-> cacheSet(cached.store, cacheKey, response, UsageTTL, t),
              status |-> 200, code |-> "", body |-> response,
              dbReads |-> IF IsDefined(query.meterId) THEN 2 ELSE 1,
              cacheOps |-> 2, fromCache |-> FALSE]

(* The select of the per-subject rows names its second field with raw sql   *)
(* and no .as(), so the statement has no column alias: in ORDER BY value     *)
(* DESC, value is the column events.value, which SQLite reads from one row   *)
(* of each group, whichever it visits (pick: the first or the last).        *)
ColumnValue(db, positions, pick) ==
    LET i == CHOOSE k \in positions :
                \A q \in positions : IF pick = "first" THEN k <= q ELSE k >= q
    IN  db.events[i].value

(* ORDER BY value DESC of the per-subject rows; rows of equal value come in *)
(* either order                                                             *)
RECURSIVE OrderByValueDesc(_, _)
OrderByValueDesc(rows, pick) ==
    IF rows = {} THEN <<>>
    ELSE LET top == {r \in rows : \A q \in rows : q.column <= r.column}
             first == CHOOSE r \in top :
                         \A q \in top : IF pick = "first" THEN r.subjectId <= q.subjectId
                                        ELSE r.subjectId >= q.subjectId
         IN  <<[subjectId |-> first.subjectId, value |-> first.value]>>
                \o OrderByValueDesc(rows \ {first}, pick)

(* GET /usage/report *)
usageReport(db, store, namespace, query, pick, t) ==
    LET from == IF IsDefined(query.from) THEN NewDate(Get(query.from))
                ELSE [s |-> t - 24 * 3600, ms |-> 0]
        to == IF IsDefined(query.to) THEN NewDate(Get(query.to)) ELSE [s |-> t, ms |-> 0]
        cacheKey == createKey("usage:report",
                              <<namespace, <<[meterId |-> query.meterId,
                                              subjectId |-> query.subjectId,
                                              from |-> toISOString(from),
                                              to |-> toISOString(to)]>>>>)
        cached == cacheGet(store, cacheKey, t)
        matched == whereConditions(db, query, from, to)
        agg == aggregationFor(db, query.meterId)
        Of(id) == {i \in matched : db.events[i].subjectId = id}
        subjectRows == {[subjectId |-> id,
                         value |-> aggregate(db, agg, Of(id)),
                         column |-> ColumnValue(db, Of(id), pick)] :
                            id \in {db.events[i].subjectId : i \in matched}}
        ordered == OrderByValueDesc(subjectRows, pick)
        report == [meterId |-> IF IsDefined(query.meterId) THEN Get(query.meterId) ELSE NoId,
                   subjectId |-> query.subjectId,
                   from |-> toISOString(from), to |-> toISOString(to),
                   total |-> aggregate(db, agg, matched),
                   topSubjects |-> SubSeq(ordered, 1, Min(TopSubjectsLimit, Len(ordered)))]
    IN  IF ~validUsageReport(query) THEN UsageRejected(store, "VALIDATION_ERROR")
        ELSE IF groupByRequested(query) THEN UsageRejected(store, "GROUP_BY_NOT_SUPPORTED")
        ELSE IF IsDefined(cached.value)
        THEN [store |-> cached.store, status |-> 200, code |-> "",
              body |-> Get(cached.value), dbReads |-> 0, cacheOps |-> 1, fromCache |-> TRUE]
        ELSE [store |-> cacheSet(cached.store, cacheKey, report, UsageTTL, t),
              status |-> 200, code |-> "", body |-> report,
              dbReads |-> IF IsDefined(query.meterId) THEN 3 ELSE 2,
              cacheOps |-> 2, fromCache |-> FALSE]

UsageHist(query, o) ==
    [query |-> query, fromCache |-> o.fromCache, dbReads |-> o.dbReads,
     cacheOps |-> o.cacheOps, kvSame |-> o.store = kv, kvUp |-> kvUp]

UsageQuery(namespace, query) ==
    \E o \in {usageQuery(Db, kv, namespace, query, now)} :
        /\ kv' = o.store
        /\ resp' = [kind |-> "usageQuery", namespace |-> namespace, status |-> o.status,
                    code |-> o.code, body |-> o.body, hist |-> UsageHist(query, o)]
        /\ UNCHANGED <<dbVars, now, idem, envVars>>

UsageReport(namespace, query, pick) ==
    \E o \in {usageReport(Db, kv, namespace, query, pick, now)} :
        /\ kv' = o.store
        /\ resp' = [kind |-> "usageReport", namespace |-> namespace, status |-> o.status,
                    code |-> o.code, body |-> o.body, hist |-> UsageHist(query, o)]
        /\ UNCHANGED <<dbVars, now, idem, envVars>>

----------------------------------------------------------------------------
(* Time passes: the clock advances and KV drops the entries whose           *)
(* expirationTtl has run out                                                *)

StartTime == 19723 * 86400 + 10 * 3600      \* 2024-01-01T10:00:00Z

Tick(step, limit) ==
    /\ now + step <= StartTime + limit
    /\ now' = now + step
    /\ kv' = KvExpire(kv, now + step)
    /\ UNCHANGED <<dbVars, resp, idem, envVars>>

----------------------------------------------------------------------------
(* The requests callers send *)

Namespaces == {<<"a">>, <<"b">>}
IdemKeys == {<<"k">>}
OptionalKeys == {Undefined} \cup {Some(k) : k \in IdemKeys}
Picks == {"first", "last"}

Payload(subject, type) ==
    [subject |-> subject, type |-> type, timestamp |-> Undefined,
     value |-> Undefined, properties |-> Undefined]

CountMeter(key, eventType) ==
    [key |-> key, aggregation |-> "COUNT", eventType |-> eventType,
     valueProperty |-> Undefined]

(* whether the engine's choice of row matters: pick is "first" unless       *)
(* several meters of the namespace have the event type                      *)
PickMatters(namespace, types, pick) ==
    IF pick = "first" THEN TRUE
    ELSE \E ty \in types : Cardinality(MetersOfType(Db, namespace, ty)) > 1

Init ==
    /\ meters = <<>>
    /\ subjects = <<>>
    /\ events = <<>>
    /\ nextId = 0
    /\ kv = <<>>
    /\ now = StartTime
    /\ resp = NoResp
    /\ idem = [x \in Namespaces \X IdemKeys |-> NoIdem]
    /\ calls = <<>>
    /\ kvUp = TRUE

----------------------------------------------------------------------------
(* Spec: single-event ingestion with idempotency keys, in two namespaces,   *)
(* over one day of the idempotency entries' lifetime and beyond             *)

EventInputs ==
    {Payload("alice", ty) : ty \in {"api_call", "tokens"}} \cup {Payload("", "api_call")}

MeterInputs == {CountMeter("m1", "api_call")}

MaxTicks == 2

(* callers of namespace "a" send every payload, with and without a key;     *)
(* callers of namespace "b" send the valid api_call event under a key       *)
EventCalls ==
    {c \in Namespaces \X OptionalKeys \X EventInputs :
        c[1] = <<"b">> => IsDefined(c[2]) /\ c[3] = Payload("alice", "api_call")}

Next ==
    \/ \E ns \in Namespaces, data \in MeterInputs : CreateMeter(ns, data)
    \/ \E c \in EventCalls, pick \in Picks :
          /\ Len(events) < MaxEvents
          /\ PickMatters(c[1], {c[3].type}, pick)
          /\ PostEvent(c[1], c[2], c[3], pick)
    \/ Tick(IdempotencyTTL \div 2, MaxTicks * (IdempotencyTTL \div 2))

Spec == Init /\ [][Next]_vars

----------------------------------------------------------------------------
(* SpecMeters: soft deletion of meters, the default listing and ingestion   *)

MetersMeterInputs == {CountMeter(k, "api_call") : k \in {"m1", "m2"}}
MetersEventInputs == {Payload("alice", "api_call")}
MetersNamespaces == {<<"a">>}

NextMeters ==
    \/ \E ns \in MetersNamespaces, data \in MetersMeterInputs : CreateMeter(ns, data)
    \/ \E ns \in MetersNamespaces, id \in 1..nextId : DeleteMeter(ns, id)
    \/ \E ns \in MetersNamespaces : ListMeters(ns, FALSE)
    \/ \E ns \in MetersNamespaces, data \in MetersEventInputs, pick \in Picks :
          /\ Len(events) < MaxEvents
          /\ PickMatters(ns, {data.type}, pick)
          /\ PostEvent(ns, Undefined, data, pick)

SpecMeters == Init /\ [][NextMeters]_vars

----------------------------------------------------------------------------
(* SpecBatch: batch ingestion *)

MaxBatchLen == 3

RECURSIVE SeqsUpTo(_, _)
SeqsUpTo(S, n) ==
    IF n = 0 THEN {<<>>}
    ELSE LET shorter == SeqsUpTo(S, n - 1)
         IN  shorter \cup {Append(q, x) : q \in {r \in shorter : Len(r) = n - 1}, x \in S}

BatchPayloads == {Payload("alice", "api_call"), Payload("alice", "tokens")}

Oversized == [k \in 1..(MaxBatchSize + 1) |-> Payload("alice", "api_call")]

BatchInputs == (SeqsUpTo(BatchPayloads, MaxBatchLen) \ {<<>>}) \cup {Oversized}

BatchMeterInputs == {CountMeter("m1", "api_call")}
BatchNamespaces == {<<"a">>}

NextBatch ==
    \/ \E ns \in BatchNamespaces, data \in BatchMeterInputs : CreateMeter(ns, data)
    \/ \E ns \in BatchNamespaces, key \in OptionalKeys, batch \in BatchInputs, pick \in Picks :
          /\ PickMatters(ns, {batch[k].type : k \in 1..Min(Len(batch), MaxBatchLen)}, pick)
          /\ PostBatch(ns, key, batch, pick)

SpecBatch == Init /\ [][NextBatch]_vars

----------------------------------------------------------------------------
(* SpecValue: one meter of any configuration, and the ingestion of one      *)
(* event of any payload                                                     *)

Aggregations == {"SUM", "COUNT", "AVG", "MIN", "MAX", "UNIQUE_COUNT", "LATEST"}
ValueProperties == {Undefined, Some(""), Some("amount")}
PropKeys == {"amount", ""}

JsonValues ==
    {JNumber(10), JNumber(0), JBoolean, JNull,
     JString(<<"7">>), JString(<<"1", "2", "a">>), JString(<<" ", "-", "3">>),
     JString(<<"a", "b", "c">>), JString(<<>>)}

PropertyBags ==
    {Undefined} \cup
    {Some(bag) : bag \in UNION {[keys -> JsonValues] : keys \in SUBSET PropKeys}}

ValuePayloads ==
    {[subject |-> "alice", type |-> "api_call", timestamp |-> Undefined,
      value |-> v, properties |-> bag] :
        v \in {Undefined, Some(0), Some(5)}, bag \in PropertyBags}

ValueMeters ==
    {[id |-> 1, namespace |-> <<"a">>, key |-> "m1", aggregation |-> agg,
      eventType |-> "api_call", valueProperty |-> vp, deletedAt |-> Undefined] :
        agg \in Aggregations, vp \in ValueProperties}

InitValue ==
    /\ meters \in {<<m>> : m \in ValueMeters}
    /\ subjects = <<>>
    /\ events = <<>>
    /\ nextId = 1
    /\ kv = <<>>
    /\ now = StartTime
    /\ resp = NoResp
    /\ idem = [x \in Namespaces \X IdemKeys |-> NoIdem]
    /\ calls = <<>>
    /\ kvUp = TRUE

NextValue ==
    \E data \in ValuePayloads :
        Len(events) = 0 /\ PostEvent(<<"a">>, Undefined, data, "first")

SpecValue == InitValue /\ [][NextValue]_vars

----------------------------------------------------------------------------
(* SpecUsage: two meters (one of them COUNT), a feed of events with their   *)
(* own timestamps, and usage queries and reports between the events         *)

MaxUsageEvents == 4
MaxCached == 1

At(h, m, s, ms) == Iso(2024, 1, 1, h, m, s, ms)

UsageEvent(subject, type, timestamp, value) ==
    [subject |-> subject, type |-> type, timestamp |-> Some(timestamp),
     value |-> Some(value), properties |-> Undefined]

(* the events sent, in the order they are sent *)
UsageFeed ==
    <<UsageEvent("alice", "api_call", At(10, 0, 5, 0), 3),
      UsageEvent("bob", "login", At(10, 0, 45, 0), 7),
      UsageEvent("alice", "api_call", At(10, 0, 45, 0), 4),
      UsageEvent("alice", "api_call", At(10, 1, 10, 500), 5),
      UsageEvent("bob", "api_call", Iso(2024, 2, 1, 0, 0, 0, 500), 2),
      UsageEvent("alice", "login", At(10, 2, 0, 0), 7)>>

FeedAt(k) == UsageFeed[((k - 1) % Len(UsageFeed)) + 1]

UsageMeter(id, key, aggregation, eventType) ==
    [id |-> id, namespace |-> <<"a">>, key |-> key, aggregation |-> aggregation,
     eventType |-> eventType, valueProperty |-> Undefined, deletedAt |-> Undefined]

Query(meterId, subjectId, from, to, windowSize, groupBy) ==
    [meterId |-> meterId, subjectId |-> subjectId, from |-> from, to |-> to,
     windowSize |-> windowSize, groupBy |-> groupBy]

Whole == <<Some(At(10, 0, 0, 0)), Some(At(10, 2, 0, 0))>>
Inner == <<Some(At(10, 0, 45, 0)), Some(At(10, 1, 10, 0))>>
Month == <<Some(At(0, 0, 0, 0)), Some(Iso(2024, 2, 1, 0, 0, 0, 0))>>

(* alice is the first subject the feed creates: its row follows the meters' *)
AliceId == 3

UsageQueries ==
    {Query(Some(1), Undefined, Whole[1], Whole[2], Some("MINUTE"), <<>>),
     Query(Some(2), Undefined, Whole[1], Whole[2], Some("MINUTE"), <<>>),
     Query(Undefined, Undefined, Whole[1], Whole[2], Some("SECOND"), <<>>),
     Query(Some(9), Undefined, Whole[1], Whole[2], Undefined, <<>>),
     Query(Some(1), Some(AliceId), Inner[1], Inner[2], Some("SECOND"), <<>>),
     Query(Undefined, Undefined, Month[1], Month[2], Some("MONTH"), <<>>),
     Query(Some(1), Undefined, Month[1], Month[2], Some("DAY"), <<>>),
     Query(Some(1), Undefined, Whole[1], Whole[2], Some("MINUTE"), <<"path">>),
     Query(Some(1), Undefined, Whole[1], Whole[2], Some("MINUTE"), <<"path", "region">>),
     Query(Some(1), Undefined, Undefined, Whole[2], Some("MINUTE"), <<>>)}

UsageReports ==
    {Query(Undefined, Undefined, Undefined, Undefined, Undefined, <<>>),
     Query(Some(1), Undefined, Whole[1], Whole[2], Undefined, <<>>),
     Query(Some(1), Undefined, Whole[1], Whole[2], Undefined, <<"path">>),
     Query(Undefined, Undefined, Undefined, Undefined, Undefined, <<"path", "region">>)}

InitUsage ==
    /\ meters \in {<<UsageMeter(1, "m1", agg, "api_call"), UsageMeter(2, "m2", "COUNT", "login")>> :
                      agg \in Aggregations \ {"COUNT"}}
    /\ subjects = <<>>
    /\ events = <<>>
    /\ nextId = 2
    /\ kv = <<>>
    /\ now = StartTime
    /\ resp = NoResp
    /\ idem = [x \in Namespaces \X IdemKeys |-> NoIdem]
    /\ calls = <<>>
    /\ kvUp = TRUE

NextUsage ==
    \/ /\ Len(events) < MaxUsageEvents
       /\ PostEvent(<<"a">>, Undefined, FeedAt(Len(events) + 1), "first")
    \/ \E query \in UsageQueries :
          UsageQuery(<<"a">>, query) /\ Cardinality(DOMAIN kv') <= MaxCached
    \/ \E query \in UsageReports, pick \in Picks :
          /\ IF pick = "first" THEN TRUE
             ELSE Cardinality({events[i].subjectId : i \in 1..Len(events)}) > 1
          /\ UsageReport(<<"a">>, query, pick)
          /\ Cardinality(DOMAIN kv') <= MaxCached

SpecUsage == InitUsage /\ [][NextUsage]_vars

----------------------------------------------------------------------------
(* Properties of single-event ingestion (Spec)                              *)

MeterById(id) == CHOOSE m \in {meters[i] : i \in 1..Len(meters)} : m.id = id

LastEvent == events[Len(events)]

SubjectRows(namespace, subjectKey) ==
    {i \in 1..Len(subjects) :
        subjects[i].namespace = namespace /\ subjects[i].key = subjectKey}

(* C1: a POST /events that passes validation and repeats a (namespace,      *)
(* Idempotency-Key) of a call answered 201 less than 24 hours earlier is    *)
(* answered 200 with the result stored by that first call (its eventId,     *)
(* processed = true) and inserts no events row: the key stands for exactly  *)
(* one event during the window.                                             *)
C1_IdempotentReplay ==
    /\ (resp.kind = "event" /\ resp.hist.later /\ validIngestEvent(resp.hist.data))
          => /\ resp.status = 200
             /\ resp.body = [eventId |-> resp.hist.firstId, processed |-> TRUE]
             /\ resp.hist.newEvents = 0
             /\ resp.hist.newSubjects = 0
    /\ \A x \in DOMAIN idem :
          idem[x].st = "done"
             => /\ idem[x].rows = 1
                /\ \E i \in 1..Len(events) : events[i].id = idem[x].id

C1_Replayed ==
    /\ resp.kind = "event"
    /\ resp.hist.later
    /\ now > idem[<<resp.namespace, Get(resp.hist.key)>>].at
    /\ resp.status = 200
    /\ resp.hist.data.type = "tokens"
    /\ Len(events) = 1

(* C10: a successful ingestion inserts exactly one events row; when the     *)
(* subject key was not yet present in the namespace it also inserts exactly *)
(* one subjects row, with key and displayName equal to the event's subject, *)
(* and when the key was present it inserts none. A (namespace, key) never   *)
(* has two subjects rows, and the event refers to the row of its key.       *)
C10_SubjectAutoCreation ==
    /\ \A ns \in Namespaces, i \in 1..Len(subjects) :
          /\ Cardinality(SubjectRows(ns, subjects[i].key)) <= 1
          /\ subjects[i].displayName = subjects[i].key
    /\ (resp.kind = "event" /\ resp.status = 201)
          => LET rows == SubjectRows(resp.namespace, resp.hist.data.subject)
             IN  /\ resp.hist.newEvents = 1
                 /\ resp.hist.newSubjects = IF resp.hist.subjectKnown THEN 0 ELSE 1
                 /\ Cardinality(rows) = 1
                 /\ \A i \in rows :
                       /\ LastEvent.subjectId = subjects[i].id
                       /\ (~resp.hist.subjectKnown => i = Len(subjects))

C10_KnownSubjectReused ==
    /\ resp.kind = "event"
    /\ resp.status = 201
    /\ resp.hist.subjectKnown
    /\ resp.hist.newSubjects = 0
    /\ Len(events) = 2
    /\ events[1].subjectId = events[2].subjectId

----------------------------------------------------------------------------
(* Properties of soft-deleted meters (SpecMeters)                           *)

(* C9: once a meter is soft-deleted, the default listing (no includeDeleted)*)
(* does not show it, and ingestion does not resolve an event type to it:    *)
(* no event is recorded against a meter whose deletedAt is set.             *)
C9_DeletedMeterExcluded ==
    /\ (resp.kind = "listMeters" /\ ~resp.hist.includeDeleted)
          => \A id \in resp.body.data : ~IsDefined(MeterById(id).deletedAt)
    /\ (resp.kind = "event" /\ resp.status = 201)
          => ~IsDefined(MeterById(LastEvent.meterId).deletedAt)

(* what the code does instead: the listing leaves the deleted meter out,    *)
(* and the event is recorded against it                                     *)
C9_IngestedIntoDeletedMeter ==
    /\ resp.kind = "event"
    /\ resp.status = 201
    /\ resp.hist.live = {}
    /\ IsDefined(MeterById(LastEvent.meterId).deletedAt)

----------------------------------------------------------------------------
(* Properties of batch ingestion (SpecBatch)                                *)

RECURSIVE ErrorsOf(_, _, _)
ErrorsOf(failed, batchTypes, k) ==
    IF k > Len(batchTypes) THEN <<>>
    ELSE (IF k \in failed THEN <<ErrorEntry(k - 1, NoMeterMessage(batchTypes[k]))>> ELSE <<>>)
         \o ErrorsOf(failed, batchTypes, k + 1)

(* C2: a batch that is processed answers with processedEvents + failedEvents*)
(* = totalEvents = the number of events sent; the events that fail are      *)
(* exactly those with no meter for their type, each with one error entry,   *)
(* and every other event of the batch is stored, wherever the failures sit; *)
(* the status is 207 when an event failed and 201 otherwise.                *)
C2_BatchPartialFailure ==
    (resp.kind = "batch" /\ resp.status \in {201, 207})
       => LET r == resp.hist.results
          IN  /\ r.totalEvents = resp.hist.size
              /\ r.processedEvents + r.failedEvents = r.totalEvents
              /\ r.failedEvents = Cardinality(resp.hist.noMeter)
              /\ Len(r.errors) = r.failedEvents
              /\ r.errors = ErrorsOf(resp.hist.noMeter, resp.hist.types, 1)
              /\ resp.hist.newEvents = r.processedEvents
              /\ resp.status = (IF r.failedEvents > 0 THEN 207 ELSE 201)
              /\ resp.body.totalEvents = r.totalEvents
              /\ resp.body.processedEvents = r.processedEvents
              /\ resp.body.failedEvents = r.failedEvents

C2_FailureThenSuccess ==
    /\ resp.kind = "batch"
    /\ resp.status = 207
    /\ resp.hist.size = 3
    /\ resp.hist.noMeter = {1}
    /\ resp.hist.newEvents = 2

(* C7: a batch of more than 1000 events is answered 400 and leaves the      *)
(* database and the cache as they were: no events row, no subjects row, no  *)
(* idempotency result.                                                      *)
C7_OversizedBatchRejected ==
    (resp.kind = "batch" /\ resp.hist.size > MaxBatchSize)
       => /\ resp.status = 400
          /\ resp.hist.newEvents = 0
          /\ resp.hist.newSubjects = 0
          /\ ~resp.hist.stored
          /\ resp.hist.kvSame

C7_OversizedAfterStoredKey ==
    /\ resp.kind = "batch"
    /\ resp.hist.size > MaxBatchSize
    /\ resp.status = 400
    /\ HasKey(resp.hist.key)
    /\ IsDefined(checkIdempotency(kv, Get(resp.hist.key), resp.namespace,
                                  "batch-events", now).value)

----------------------------------------------------------------------------
(* Properties of value extraction (SpecValue)                               *)

(* the number a property holds: a number itself, a text the number it       *)
(* parses to; anything else holds none                                      *)
NumberHeld(v) ==
    IF v.type = "number" THEN Num(v.num)
    ELSE IF v.type = "string" THEN parseFloat(v.str)
    ELSE NaN

(* the priority of the value sources.  A valueProperty is set when it names *)
(* a property: the empty name counts as not set.                            *)
PriorityValue(data, meter) ==
    LET set == IsDefined(meter.valueProperty) /\ Get(meter.valueProperty) # ""
        present == /\ set
                   /\ IsDefined(data.properties)
                   /\ Get(meter.valueProperty) \in DOMAIN Get(data.properties)
        held == IF present THEN NumberHeld(Get(data.properties)[Get(meter.valueProperty)])
                ELSE NaN
    IN  IF ~held.nan THEN held.val
        ELSE IF IsDefined(data.value) THEN Get(data.value)
        ELSE IF meter.aggregation = "COUNT" THEN 1
        ELSE 0

(* C3: the value of the events row an ingestion stores is, in this order:   *)
(* the number held by the property the meter's valueProperty names (a       *)
(* number, or a text that parses to one; a property that holds no number    *)
(* falls through), else the event's explicit value, else 1 for a COUNT      *)
(* meter, else 0.  A configured numeric property wins over an explicit      *)
(* value.                                                                   *)
C3_ValuePriority ==
    (resp.kind = "event" /\ resp.status = 201)
       => LET data == resp.hist.data
              meter == MeterById(LastEvent.meterId)
          IN  /\ LastEvent.value = PriorityValue(data, meter)
              /\ (/\ meter.valueProperty = Some("amount")
                  /\ IsDefined(data.properties)
                  /\ "amount" \in DOMAIN Get(data.properties)
                  /\ Get(data.properties)["amount"].type = "number")
                    => LastEvent.value = Get(data.properties)["amount"].num

C3_PropertyTextBeatsExplicit ==
    /\ resp.kind = "event"
    /\ resp.status = 201
    /\ MeterById(LastEvent.meterId).valueProperty = Some("amount")
    /\ resp.hist.data.value = Some(5)
    /\ IsDefined(resp.hist.data.properties)
    /\ "amount" \in DOMAIN Get(resp.hist.data.properties)
    /\ Get(resp.hist.data.properties)["amount"] = JString(<<"1", "2", "a">>)
    /\ LastEvent.value = 12

----------------------------------------------------------------------------
(* Properties of usage queries (SpecUsage)                                  *)

(* the start of the calendar window of an instant, as a text *)
Truncate(iso, windowSize) ==
    CASE windowSize = "SECOND" -> [iso EXCEPT !.ms = 0]
      [] windowSize = "MINUTE" -> [iso EXCEPT !.s = 0, !.ms = 0]
      [] windowSize = "HOUR" -> [iso EXCEPT !.m = 0, !.s = 0, !.ms = 0]
      [] windowSize = "DAY" -> [iso EXCEPT !.h = 0, !.m = 0, !.s = 0, !.ms = 0]
      [] windowSize = "MONTH" -> [iso EXCEPT !.D = 1, !.h = 0, !.m = 0, !.s = 0, !.ms = 0]

DateLeq(a, b) == a.s < b.s \/ (a.s = b.s /\ a.ms <= b.ms)

(* the event's own timestamp, as a text *)
EventText(i) == toISOString(events[i].at)

ComputedQuery ==
    resp.kind = "usageQuery" /\ resp.status = 200 /\ ~resp.hist.fromCache

(* the events the answered query matched *)
Matched ==
    whereConditions(Db, resp.hist.query, NewDate(Get(resp.hist.query.from)),
                    NewDate(Get(resp.hist.query.to)))

DataTexts == {resp.body.data[k].timestamp : k \in 1..Len(resp.body.data)}

CountMeterAsked ==
    /\ IsDefined(resp.hist.query.meterId)
    /\ \E i \in 1..Len(meters) :
          meters[i].id = Get(resp.hist.query.meterId) /\ meters[i].aggregation = "COUNT"

(* C4: every event a usage query matches is reported under the start of the *)
(* calendar window (UTC) of its own timestamp: the bucket timestamps of the *)
(* answer are exactly the truncated timestamps of the matched events, and a *)
(* bucket aggregates the events truncated to it (10:00:05, 10:00:45 and     *)
(* 10:01:10 by MINUTE: 10:00:00 with the first two, 10:01:00 with the       *)
(* third).                                                                  *)
C4_BucketIsTruncatedTimestamp ==
    ComputedQuery
       => LET w == resp.body.windowSize
              data == resp.body.data
          IN  /\ DataTexts = {Truncate(EventText(i), w) : i \in Matched}
              /\ \A k \in 1..Len(data) :
                    data[k].value =
                        aggregate(Db, IF CountMeterAsked THEN "COUNT" ELSE "SUM",
                                  {i \in Matched : Truncate(EventText(i), w) = data[k].timestamp})

(* what the code answers for the three events: one bucket in January 1970   *)
C4_ExampleCollapsed ==
    /\ ComputedQuery
    /\ resp.hist.query = Query(Some(1), Undefined, Whole[1], Whole[2], Some("MINUTE"), <<>>)
    /\ Len(events) = 4
    /\ Matched = {1, 3, 4}
    /\ resp.body.data = <<[timestamp |-> Iso(1970, 1, 20, 17, 21, 0, 0), value |-> 12]>>

C6_OneRowPerNonEmptyWindow ==
    ComputedQuery
       => LET q == resp.hist.query
              data == resp.body.data
              inRange == {i \in 1..Len(events) :
                            /\ DateLeq(NewDate(Get(q.from)), events[i].at)
                            /\ DateLeq(events[i].at, NewDate(Get(q.to)))
                            /\ IsDefined(q.meterId) => events[i].meterId = Get(q.meterId)
                            /\ IsDefined(q.subjectId) => events[i].subjectId = Get(q.subjectId)}
              windows == {Truncate(EventText(i), resp.body.windowSize) : i \in inRange}
          IN  /\ Len(data) = Cardinality(windows)
              /\ DataTexts = windows
              /\ \A k \in 1..(Len(data) - 1) :
                    TextLess(data[k].timestamp, data[k + 1].timestamp)

(* what the code answers: the events of two minutes under one entry, and an *)
(* event half a second after "to" among the matched                         *)
C6_TwoWindowsOneEntry ==
    /\ ComputedQuery
    /\ resp.hist.query = Query(Some(1), Some(AliceId), Inner[1], Inner[2], Some("SECOND"), <<>>)
    /\ Matched = {3, 4}
    /\ ~DateLeq(events[4].at, NewDate(Get(Inner[2])))
    /\ Len(resp.body.data) = 1

----------------------------------------------------------------------------
(* POST /events await by await.  Requests in flight run in one isolate or   *)
(* in several: between two awaits of one request, any awaits of the others  *)
(* may complete.  A call is at the await named by its pc.                   *)

UniqueMessage == "UNIQUE constraint failed: subjects.namespace, subjects.key"

(* the select of findOrCreateSubject *)
selectSubject(db, namespace, subjectKey) ==
    LET Match(row) == row.namespace = namespace /\ row.key = subjectKey
    IN  LimitOne(SelectSeq(db.subjects, Match), "first")

(* the insert of findOrCreateSubject; unique().on(namespace, key) makes the *)
(* insert of a second row for the key throw                                 *)
insertSubject(db, namespace, subjectKey) ==
    LET newSubject == [id |-> db.nextId + 1, namespace |-> namespace,
                       key |-> subjectKey, displayName |-> subjectKey]
    IN  IF IsDefined(selectSubject(db, namespace, subjectKey))
        THEN [db |-> db, ok |-> FALSE, subject |-> Undefined]
        ELSE [db |-> [db EXCEPT !.subjects = Append(@, newSubject), !.nextId = @ + 1],
              ok |-> TRUE, subject |-> Some(newSubject)]

(* app.onError: the response to an error a handler throws; the message of   *)
(* the error is shown only when ENVIRONMENT is "development"                *)
onError(message, environment) ==
    [status |-> 500, code |-> "INTERNAL_ERROR",
     message |-> IF environment = "development" THEN message ELSE "Internal server error"]

(* a request arriving; status, code and message are those of its response;  *)
(* error is the message of the Error thrown, if one is                      *)
NewCall(namespace, key, data, environment) ==
    [pc |-> "check", namespace |-> namespace, key |-> key, data |-> data,
     environment |-> environment,
     hit |-> FALSE, storedThen |-> FALSE, subject |-> Undefined, meter |-> Undefined,
     eventId |-> 0, status |-> 0, code |-> "", message |-> "", error |-> ""]

(* the handler's catch rethrows *)
Failed(call, message) ==
    LET response == onError(message, call.environment)
    IN  [call EXCEPT !.pc = "done", !.status = response.status, !.code = response.code,
                     !.message = response.message, !.error = message]

(* whether a call with the same namespace and key has stored its result *)
StoredFor(p) ==
    \E q \in DOMAIN calls :
        /\ calls[q].namespace = calls[p].namespace
        /\ calls[q].key = calls[p].key
        /\ calls[q].pc = "done"
        /\ calls[q].status = 201

(* a lookup under the key of the other operation *)
callCheckIdempotencyOtherKind(store, key, namespace, t) ==
    checkIdempotency(store, key, namespace, "batch-events", t)

(* the checkIdempotency of the concurrent deliveries *)
callCheckIdempotency(store, key, namespace, t) ==
    checkIdempotency(store, key, namespace, "single-event", t)

(* await checkIdempotency(...) *)
CallCheck(p) ==
    LET call == calls[p]
        hit == IF HasKey(call.key)
               THEN callCheckIdempotency(kv, Get(call.key), call.namespace, now)
               ELSE [value |-> Undefined, store |-> kv]
        seen == [call EXCEPT !.storedThen = HasKey(call.key) /\ StoredFor(p)]
    IN  /\ call.pc = "check"
        /\ kv' = hit.store
        /\ calls' = [calls EXCEPT ![p] =
                        IF IsDefined(hit.value)
                        THEN [seen EXCEPT !.pc = "done", !.hit = TRUE, !.status = 200,
                                          !.eventId = Get(hit.value).eventId]
                        ELSE [seen EXCEPT !.pc = "select"]]
        /\ UNCHANGED <<dbVars, now, resp, idem, kvUp>>

(* await database.select().from(subjects)... *)
CallSelectSubject(p) ==
    LET call == calls[p]
        found == selectSubject(Db, call.namespace, call.data.subject)
    IN  /\ call.pc = "select"
        /\ calls' = [calls EXCEPT ![p] =
                        IF IsDefined(found)
                        THEN [call EXCEPT !.pc = "meter", !.subject = found]
                        ELSE [call EXCEPT !.pc = "insert"]]
        /\ UNCHANGED <<dbVars, kv, now, resp, idem, kvUp>>

(* await database.insert(subjects)...; its error is rethrown *)
CallInsertSubject(p) ==
    LET call == calls[p]
    IN  /\ call.pc = "insert"
        /\ \E r \in {insertSubject(Db, call.namespace, call.data.subject)} :
              /\ SetDb(r.db)
              /\ calls' = [calls EXCEPT ![p] =
                              IF r.ok THEN [call EXCEPT !.pc = "meter", !.subject = r.subject]
                              ELSE Failed(call, UniqueMessage)]
        /\ UNCHANGED <<kv, now, resp, idem, kvUp>>

(* await this.findMeterByEventType(...) *)
CallFindMeter(p) ==
    LET call == calls[p]
        meter == findMeterByEventType(Db, call.namespace, call.data.type, "first")
    IN  /\ call.pc = "meter"
        /\ calls' = [calls EXCEPT ![p] =
                        IF IsDefined(meter) THEN [call EXCEPT !.pc = "event", !.meter = meter]
                        ELSE Failed(call, NoMeterMessage(call.data.type))]
        /\ UNCHANGED <<dbVars, kv, now, resp, idem, kvUp>>

(* await database.insert(events)... *)
CallInsertEvent(p) ==
    LET call == calls[p]
        id == nextId + 1
    IN  /\ call.pc = "event"
        /\ SetDb([Db EXCEPT !.events = Append(@, EventRow(id, Get(call.meter), Get(call.subject),
                                                        call.data, now)),
                            !.nextId = id])
        /\ calls' = [calls EXCEPT ![p] = [call EXCEPT !.pc = "store", !.eventId = id]]
        /\ UNCHANGED <<kv, now, resp, idem, kvUp>>

(* await storeIdempotencyResult(...); await invalidatePattern(...); 201 *)
CallStore(p) ==
    LET call == calls[p]
        result == [eventId |-> call.eventId, processed |-> TRUE]
        stored == IF HasKey(call.key)
                  THEN storeIdempotencyResult(kv, Get(call.key), call.namespace,
                                              "single-event", result, now)
                  ELSE kv
    IN  /\ call.pc = "store"
        /\ kv' = invalidatePattern(stored, eventsPrefix(call.namespace))
        /\ calls' = [calls EXCEPT ![p] = [call EXCEPT !.pc = "done", !.status = 201]]
        /\ UNCHANGED <<dbVars, now, resp, idem, kvUp>>

----------------------------------------------------------------------------
(* SpecRace: deliveries of POST /events in flight together, in one          *)
(* namespace, for a subject not seen before                                 *)

MaxDeliveries == 2

(* ENVIRONMENT of the deployment *)
Environments == {"production", "development"}

RaceOthers ==
    {Payload("alice", "api_call"), Payload("alice", "tokens"), Payload("bob", "api_call")}

InitRace ==
    /\ meters = <<UsageMeter(1, "m1", "COUNT", "api_call")>>
    /\ subjects = <<>>
    /\ events = <<>>
    /\ nextId = 1
    /\ kv = <<>>
    /\ now = StartTime
    /\ resp = NoResp
    /\ idem = [x \in Namespaces \X IdemKeys |-> NoIdem]
    /\ kvUp = TRUE
    /\ calls \in {[p \in 1..MaxDeliveries |->
                      NewCall(<<"a">>, key,
                              IF p = 1 THEN Payload("alice", "api_call") ELSE other,
                              environment)] :
                    key \in OptionalKeys, other \in RaceOthers,
                    environment \in Environments}

NextRace ==
    \E p \in DOMAIN calls :
        \/ CallCheck(p)
        \/ CallSelectSubject(p)
        \/ CallInsertSubject(p)
        \/ CallFindMeter(p)
        \/ CallInsertEvent(p)
        \/ CallStore(p)

SpecRace == InitRace /\ [][NextRace]_vars

AllDone == \A p \in DOMAIN calls : calls[p].pc = "done"

(* C11: when ingests of one unseen (namespace, subject key) run together,   *)
(* the duplicate-key failure of the later subject insert is tolerated: no   *)
(* ingest fails because of it, every ingest with a meter for its type       *)
(* stores its event, and the key has exactly one subjects row afterwards.   *)
C11_DuplicateInsertTolerated ==
    /\ \A p \in DOMAIN calls : calls[p].error # UniqueMessage
    /\ AllDone
          => \A p \in DOMAIN calls :
                /\ MetersOfType(Db, calls[p].namespace, calls[p].data.type) # {}
                      => calls[p].status \in {200, 201}
                /\ Cardinality(SubjectRows(calls[p].namespace, calls[p].data.subject)) = 1

(* what the code does: the later insert throws, the error is rethrown and   *)
(* that ingest fails without storing its event                              *)
C11_LoserFails ==
    /\ AllDone
    /\ calls[1].data = calls[2].data
    /\ \E p, q \in DOMAIN calls :
          /\ calls[p].status = 201
          /\ calls[q].status = 500
          /\ calls[q].error = UniqueMessage
    /\ Len(events) = 1
    /\ Len(subjects) = 1

(* C12: idempotency is at-least-once under concurrency.  A delivery replays *)
(* a stored result exactly when a delivery with its namespace and key had   *)
(* stored one before its lookup; a delivery whose lookup came earlier       *)
(* ingests, whatever the others in flight have done, and every ingest that  *)
(* completes stores an events row with an eventId of its own.               *)
C12_AtLeastOnce ==
    /\ \A p \in DOMAIN calls :
          calls[p].pc # "check" => (calls[p].hit <=> calls[p].storedThen)
    /\ \A p \in DOMAIN calls :
          (calls[p].pc \in {"store", "done"} /\ calls[p].status # 500 /\ ~calls[p].hit)
             => \E i \in 1..Len(events) : events[i].id = calls[p].eventId
    /\ \A p, q \in DOMAIN calls :
          (p # q /\ ~calls[p].hit /\ ~calls[q].hit /\ calls[p].eventId # 0)
             => calls[p].eventId # calls[q].eventId

(* two deliveries with one key, both answered 201, two events rows *)
C12_BothIngested ==
    /\ AllDone
    /\ HasKey(calls[1].key)
    /\ calls[1].key = calls[2].key
    /\ calls[1].status = 201
    /\ calls[2].status = 201
    /\ calls[1].eventId # calls[2].eventId
    /\ Len(events) = 2

----------------------------------------------------------------------------
(* SpecScope: idempotency keys and namespaces as callers can send them.  A  *)
(* caller's string may contain ":" and the words the code puts into its     *)
(* cache keys; such a word inside a caller's string is one token.           *)

ScopeNamespaces ==
    {<<"a">>, <<"a", ":", "single-event">>, <<"a", ":", "single-event", ":", "x">>}

ScopeKeys ==
    {<<"k">>, <<"single-event", ":", "k">>, <<"x", ":", "batch-events", ":", "k">>}

Operations == {"single-event", "batch-events"}

ScopeNamespace(k) ==
    CASE k = 1 -> <<"a">>
      [] k = 2 -> <<"a", ":", "single-event">>
      [] OTHER -> <<"a", ":", "single-event", ":", "x">>

InitScope ==
    /\ meters = [k \in 1..3 |-> [UsageMeter(k, "m1", "COUNT", "api_call")
                                    EXCEPT !.namespace = ScopeNamespace(k)]]
    /\ subjects = <<>>
    /\ events = <<>>
    /\ nextId = 3
    /\ kv = <<>>
    /\ now = StartTime
    /\ resp = NoResp
    /\ idem = [x \in ScopeNamespaces \X ScopeKeys |-> NoIdem]
    /\ calls = <<>>
    /\ kvUp = TRUE

NextScope ==
    \/ \E ns \in ScopeNamespaces, key \in ScopeKeys :
          /\ Len(events) < MaxEvents
          /\ PostEvent(ns, Some(key), Payload("alice", "api_call"), "first")
    \/ \E ns \in ScopeNamespaces, key \in ScopeKeys :
          PostBatch(ns, Some(key), <<Payload("alice", "api_call")>>, "first")

SpecScope == InitScope /\ [][NextScope]_vars

Triples == ScopeNamespaces \X Operations \X ScopeKeys

(* C13: idempotency entries are scoped by (namespace, operation kind, key): *)
(* requests whose triples differ in any component use different cache       *)
(* entries, for the namespaces and keys callers can send; so a single-event *)
(* request is replayed a result only after a request with its own namespace *)
(* and key stored one, and a batch request is replayed a batch result.      *)
C13_ScopedByTriple ==
    /\ (resp.kind = "event" /\ resp.status = 200) => resp.hist.later
    /\ (resp.kind = "batch" /\ resp.status = 200) => "totalEvents" \in DOMAIN resp.body
    /\ \A x, y \in Triples :
          x # y => idempotencyCacheKey(x[3], x[1], x[2]) # idempotencyCacheKey(y[3], y[1], y[2])

(* what the code does: a batch request in one namespace is replayed the     *)
(* result a single-event request stored in another                          *)
C13_ReplayedAcrossTriples ==
    /\ resp.kind = "batch"
    /\ resp.status = 200
    /\ "eventId" \in DOMAIN resp.body
    /\ resp.namespace = <<"a", ":", "single-event", ":", "x">>
    /\ resp.hist.key = Some(<<"k">>)
    /\ idem[<<(<<"a">>), (<<"x", ":", "batch-events", ":", "k">>)>>].st = "done"
    /\ Len(events) = 1

----------------------------------------------------------------------------
(* SpecReplay: batches sent with idempotency keys, and sent again           *)

ReplayKeys == {<<"k">>, <<"j">>}

(* more failures than the response lists, the second event succeeding *)
ManyFailures ==
    [k \in 1..(ErrorDetailsLimit + 2) |->
        IF k = 2 THEN Payload("alice", "api_call") ELSE Payload("alice", "tokens")]

ReplayBatches ==
    {<<Payload("alice", "api_call")>>,
     <<Payload("alice", "tokens")>>,
     <<Payload("alice", "api_call"), Payload("alice", "tokens")>>,
     ManyFailures}

InitReplay ==
    /\ meters = <<UsageMeter(1, "m1", "COUNT", "api_call")>>
    /\ subjects = <<>>
    /\ events = <<>>
    /\ nextId = 1
    /\ kv = <<>>
    /\ now = StartTime
    /\ resp = NoResp
    /\ idem = [x \in Namespaces \X IdemKeys |-> NoIdem]
    /\ calls = <<>>
    /\ kvUp = TRUE

NextReplay ==
    \E key \in ReplayKeys, batch \in ReplayBatches :
        PostBatch(<<"a">>, Some(key), batch, "first")

SpecReplay == InitReplay /\ [][NextReplay]_vars

(* a response of POST /events/batch that carries a batch result *)
BatchResult(r) == r.kind = "batch" /\ r.status \in {200, 201, 207}

(* C14: a batch response that reports failedEvents > 0 and a batch response *)
(* that reports none never carry the same status, the responses served from *)
(* the idempotency cache included (here: two responses in a row).           *)
C14_PartialStatusDistinct ==
    [][(/\ BatchResult(resp) /\ BatchResult(resp')
        /\ resp.body.failedEvents > 0
        /\ resp'.body.failedEvents = 0)
          => resp.status # resp'.status]_vars

(* what the code does: a replayed result with failures is answered 200, as  *)
(* a replayed full success is                                               *)
C14_PartialReplayedAs200 ==
    /\ resp.kind = "batch"
    /\ resp.status = 200
    /\ resp.body.failedEvents > 0
    /\ \E key \in ReplayKeys :
          LET hit == checkIdempotency(kv, key, <<"a">>, "batch-events", now)
          IN  IsDefined(hit.value) /\ Get(hit.value).failedEvents = 0

(* the errors array of a batch response: the body of a first answer leaves  *)
(* it out when empty, a replayed body is the stored result                  *)
ErrorsShown(r) ==
    IF r.status = 200 THEN r.body.errors
    ELSE IF IsDefined(r.body.errors) THEN Get(r.body.errors) ELSE <<>>

(* C15: the errors array of any batch response holds at most 10 entries,    *)
(* the first 10 in batch order, and failedEvents is the full number of      *)
(* failures.                                                                *)
C15_ErrorsCapped ==
    BatchResult(resp)
       => /\ Len(ErrorsShown(resp)) <= ErrorDetailsLimit
          /\ resp.status # 200
                => /\ resp.body.failedEvents = Cardinality(resp.hist.noMeter)
                   /\ LET all == ErrorsOf(resp.hist.noMeter, resp.hist.types, 1)
                      IN  ErrorsShown(resp)
                             = SubSeq(all, 1, Min(ErrorDetailsLimit, Len(all)))

(* what the code does: the replay of a batch with 11 failures lists all 11  *)
C15_ReplayListsAll ==
    /\ resp.kind = "batch"
    /\ resp.status = 200
    /\ resp.body.failedEvents = ErrorDetailsLimit + 1
    /\ Len(resp.body.errors) = ErrorDetailsLimit + 1

----------------------------------------------------------------------------
(* SpecChunks: batches of two and three chunks, their events the same       *)
(* payload for which no meter exists, but for one at most                   *)

ChunkLens == {chunkSize + 1, 2 * chunkSize + 1}

(* the events at the positions S succeed *)
ChunkBatch(n, S) ==
    [k \in 1..n |->
        IF k \in S THEN Payload("alice", "api_call") ELSE Payload("alice", "tokens")]

(* the positions tried for the one event that succeeds *)
ChunkSpots(n) == {1, chunkSize + 1, n}

NextChunks ==
    \E n \in ChunkLens, key \in OptionalKeys :
      \E S \in {{}} \cup {{k} : k \in ChunkSpots(n)} :
        PostBatch(<<"a">>, key, ChunkBatch(n, S), "first")

SpecChunks == InitReplay /\ [][NextChunks]_vars

(* the zero-based position in the batch that an error entry names *)
NamedIndex(entry, hist) ==
    CHOOSE k \in 0..(hist.size - 1) :
        entry = "Event " \o ToString(k) \o ": " \o NoMeterMessage(hist.types[k + 1])

(* C16: the error entries of a processed batch are, one for each failed     *)
(* event, 'Event <index>: <message>' with the zero-based position of that   *)
(* event in the submitted array, in ascending order of position, whatever   *)
(* the chunk the event falls into and however many events have the same     *)
(* payload.                                                                 *)
C16_ErrorIndexIsBatchPosition ==
    (resp.kind = "batch" /\ resp.status \in {201, 207})
       => LET errs == resp.hist.results.errors
              h == resp.hist
          IN  /\ Len(errs) = Cardinality(h.noMeter)
              /\ {errs[e] : e \in 1..Len(errs)}
                    = {ErrorEntry(k - 1, NoMeterMessage(h.types[k])) : k \in h.noMeter}
              /\ \A e \in 1..(Len(errs) - 1) :
                    NamedIndex(errs[e], h) < NamedIndex(errs[e + 1], h)

C16_FailuresInThreeChunks ==
    /\ resp.kind = "batch"
    /\ resp.status = 207
    /\ resp.hist.size = 2 * chunkSize + 1
    /\ resp.hist.newEvents = 1
    /\ {1, chunkSize, chunkSize + 2, 2 * chunkSize + 1} \subseteq resp.hist.noMeter
    /\ resp.hist.results.errors[resp.hist.results.failedEvents]
          = ErrorEntry(2 * chunkSize, NoMeterMessage("tokens"))

----------------------------------------------------------------------------
(* SpecOutage: ingestion and usage queries while the KV namespace fails and *)
(* recovers                                                                 *)

(* every call on the KV binding throws from now on, or stops throwing *)
KvOutage ==
    /\ kvUp' = ~kvUp
    /\ UNCHANGED <<dbVars, kv, now, resp, idem, calls>>

OutageEvents == {FeedAt(1), FeedAt(3), Payload("alice", "tokens")}

OutageQueries ==
    {Query(Some(1), Undefined, Whole[1], Whole[2], Some("MINUTE"), <<>>),
     Query(Undefined, Undefined, Whole[1], Whole[2], Some("SECOND"), <<>>)}

NextOutage ==
    \/ KvOutage
    \/ \E key \in OptionalKeys, data \in OutageEvents :
          /\ Len(events) < MaxEvents
          /\ PostEvent(<<"a">>, key, data, "first")
    \/ \E query \in OutageQueries : UsageQuery(<<"a">>, query)

SpecOutage == InitReplay /\ [][NextOutage]_vars

(* C17: a request handled while the cache operations fail is answered as it *)
(* is with an empty cache, and no cache error reaches the caller: an ingest *)
(* is answered 201 with its own new events row exactly when a meter exists  *)
(* for the type (its only 500 is the missing meter), never with a stored    *)
(* result; a usage query is answered with the status and body computed from *)
(* storage.                                                                 *)
C17_CacheFailuresSwallowed ==
    /\ (resp.kind = "event" /\ ~resp.hist.kvUp)
          => /\ resp.status \in {201, 500}
             /\ resp.status = 201 <=> resp.hist.matching # {}
             /\ resp.status = 201
                   => /\ resp.hist.newEvents = 1
                      /\ resp.body.eventId = LastEvent.id
                      /\ resp.body.processed
             /\ resp.status = 500 => resp.hist.newEvents = 0
    /\ (resp.kind = "usageQuery" /\ ~resp.hist.kvUp)
          => LET empty == usageQuery(Db, <<>>, resp.namespace, resp.hist.query, now)
             IN  /\ resp.status = 200
                 /\ resp.status = empty.status
                 /\ resp.body = empty.body
                 /\ ~resp.hist.fromCache

(* during the failure: a request with a key whose result is stored is       *)
(* ingested again                                                           *)
C17_IngestedDuringOutage ==
    /\ resp.kind = "event"
    /\ ~resp.hist.kvUp
    /\ resp.status = 201
    /\ HasKey(resp.hist.key)
    /\ idempotencyCacheKey(Get(resp.hist.key), resp.namespace, "single-event") \in DOMAIN kv
    /\ Len(events) = 2

----------------------------------------------------------------------------
(* Properties of the usage cache (SpecUsage)                                *)

(* the bodies a usage request is answered with when nothing is cached *)
FromStorage(r) ==
    IF r.kind = "usageQuery"
    THEN {usageQuery(Db, <<>>, r.namespace, r.hist.query, now).body}
    ELSE {usageReport(Db, <<>>, r.namespace, r.hist.query, pick, now).body : pick \in Picks}

(* C18: the cache is only an optimization: every usage query or report      *)
(* answered 200 carries the body computed from storage at the time of the   *)
(* request, whatever events were ingested and whatever was asked before.    *)
C18_CacheIsTransparent ==
    (resp.kind \in {"usageQuery", "usageReport"} /\ resp.status = 200)
       => resp.body \in FromStorage(resp)

(* what the code does: a query asked again after an ingest is answered from *)
(* the cache with the body of before the ingest                             *)
C18_StaleAnswer ==
    /\ resp.kind = "usageQuery"
    /\ resp.status = 200
    /\ resp.hist.fromCache
    /\ resp.body \notin FromStorage(resp)
    /\ Len(resp.body.data) < Len(usageQuery(Db, <<>>, resp.namespace, resp.hist.query, now).body.data)

----------------------------------------------------------------------------
(* Properties of the error outcomes (SpecRace)                              *)

(* what the caller sees of a response *)
Outcome(call) == [status |-> call.status, code |-> call.code, message |-> call.message]

NoMeterFailure(call) ==
    call.pc = "done" /\ call.error = NoMeterMessage(call.data.type)

StorageFailure(call) ==
    call.pc = "done" /\ call.error = UniqueMessage

(* C19: the response to a single-event ingest that fails for want of a      *)
(* meter differs from the response to a malformed request (400              *)
(* VALIDATION_ERROR) and from the response to an ingest that fails in       *)
(* storage.                                                                 *)
C19_NoMeterOutcomeDistinct ==
    \A p \in DOMAIN calls :
        NoMeterFailure(calls[p])
           => /\ <<calls[p].status, calls[p].code>> # <<400, "VALIDATION_ERROR">>
              /\ \A q \in DOMAIN calls :
                    StorageFailure(calls[q]) => Outcome(calls[q]) # Outcome(calls[p])

(* what the code does in production: the missing meter and the failed       *)
(* insert are both answered 500 INTERNAL_ERROR "Internal server error"      *)
C19_SameOutcomeInProduction ==
    /\ AllDone
    /\ \E p, q \in DOMAIN calls :
          /\ NoMeterFailure(calls[p])
          /\ StorageFailure(calls[q])
          /\ calls[p].environment = "production"
          /\ Outcome(calls[p]) = Outcome(calls[q])
          /\ calls[p].message = "Internal server error"

----------------------------------------------------------------------------
(* GET /events: the listing of events                                       *)

EventsListTTL == 60

(* ORDER BY timestamp DESC of the rows at the given positions; rows of      *)
(* equal timestamp come in either order                                     *)
RECURSIVE OrderByTimestampDesc(_, _, _)
OrderByTimestampDesc(rows, positions, pick) ==
    IF positions = {} THEN <<>>
    ELSE LET top == {i \in positions : \A q \in positions : rows[q].timestamp <= rows[i].timestamp}
             first == CHOOSE i \in top :
                         \A q \in top : IF pick = "first" THEN i <= q ELSE i >= q
         IN  <<rows[first]>> \o OrderByTimestampDesc(rows, positions \ {first}, pick)

(* EventsService.queryEvents: params.namespace is not among the conditions *)
queryEvents(db, params, pick) ==
    LET matched ==
            {i \in 1..Len(db.events) :
                /\ IsDefined(params.meterId) => db.events[i].meterId = Get(params.meterId)
                /\ IsDefined(params.subjectId) => db.events[i].subjectId = Get(params.subjectId)
                /\ IsDefined(params.from)
                      => db.events[i].timestamp >= mapToDriverValue(NewDate(Get(params.from)))
                /\ IsDefined(params.to)
                      => db.events[i].timestamp <= mapToDriverValue(NewDate(Get(params.to)))}
        ordered == OrderByTimestampDesc(db.events, matched, pick)
        page == SubSeq(ordered, params.offset + 1, Min(params.offset + params.limit, Len(ordered)))
    IN  [events |-> [k \in 1..Len(page) |->
                        [id |-> page[k].id, meterId |-> page[k].meterId,
                         subjectId |-> page[k].subjectId, timestamp |-> page[k].timestamp,
                         value |-> page[k].value]],
         totalCount |-> Cardinality(matched)]

(* GET /events *)
listEvents(db, store, namespace, query, pick, t) ==
    LET cacheKey == createKey("events", <<namespace, <<query>>>>)
        cached == cacheGet(store, cacheKey, t)
        result == queryEvents(db, [query EXCEPT !.namespace = namespace], pick)
        response == [data |-> result.events, totalCount |-> result.totalCount,
                     hasNextPage |-> query.offset + query.limit < result.totalCount,
                     hasPreviousPage |-> query.offset > 0,
                     limit |-> query.limit, offset |-> query.offset]
    IN  IF IsDefined(cached.value)
        THEN [store |-> cached.store, status |-> 200, code |-> "",
              body |-> Get(cached.value), fromCache |-> TRUE]
        ELSE [store |-> cacheSet(cached.store, cacheKey, response, EventsListTTL, t),
              status |-> 200, code |-> "", body |-> response, fromCache |-> FALSE]

ListEvents(namespace, query, pick) ==
    \E o \in {listEvents(Db, kv, namespace, query, pick, now)} :
        /\ kv' = o.store
        /\ resp' = [kind |-> "listEvents", namespace |-> namespace, status |-> o.status,
                    code |-> o.code, body |-> o.body,
                    hist |-> [query |-> query, pick |-> pick, fromCache |-> o.fromCache,
                              kvUp |-> kvUp]]
        /\ UNCHANGED <<dbVars, now, idem, envVars>>

----------------------------------------------------------------------------
(* SpecTenants: two namespaces with a meter each on the same event type;    *)
(* events are ingested in both and namespace a reads                        *)

ListQuery(meterId, limit, offset) ==
    [namespace |-> <<>>, meterId |-> meterId, subjectId |-> Undefined,
     from |-> Undefined, to |-> Undefined, limit |-> limit, offset |-> offset]

TenantsEvents == {FeedAt(1), FeedAt(3)}

TenantsQueries ==
    {Query(Undefined, Undefined, Whole[1], Whole[2], Some("MINUTE"), <<>>),
     Query(Some(2), Undefined, Whole[1], Whole[2], Some("MINUTE"), <<>>)}

TenantsReports == {Query(Undefined, Undefined, Whole[1], Whole[2], Undefined, <<>>)}

TenantsListings == {ListQuery(Undefined, 1, 0), ListQuery(Some(1), 1, 1)}

InitTenants ==
    /\ meters = <<UsageMeter(1, "m1", "SUM", "api_call"),
                  [UsageMeter(2, "m1", "SUM", "api_call") EXCEPT !.namespace = <<"b">>]>>
    /\ subjects = <<>>
    /\ events = <<>>
    /\ nextId = 2
    /\ kv = <<>>
    /\ now = StartTime
    /\ resp = NoResp
    /\ idem = [x \in Namespaces \X IdemKeys |-> NoIdem]
    /\ calls = <<>>
    /\ kvUp = TRUE

NextTenants ==
    \/ \E ns \in Namespaces, data \in TenantsEvents :
          /\ Len(events) < MaxEvents
          /\ PostEvent(ns, Undefined, data, "first")
    \/ \E query \in TenantsQueries :
          UsageQuery(<<"a">>, query) /\ Cardinality(DOMAIN kv') <= MaxCached
    \/ \E query \in TenantsReports :
          UsageReport(<<"a">>, query, "first") /\ Cardinality(DOMAIN kv') <= MaxCached
    \/ \E query \in TenantsListings :
          ListEvents(<<"a">>, query, "first") /\ Cardinality(DOMAIN kv') <= MaxCached

SpecTenants == InitTenants /\ [][NextTenants]_vars

(* the database without the events of the meters of other namespaces *)
OwnEvents(db, namespace) ==
    LET Own(row) == \E i \in 1..Len(db.meters) :
                        db.meters[i].id = row.meterId /\ db.meters[i].namespace = namespace
    IN  [db EXCEPT !.events = SelectSeq(@, Own)]

(* the bodies a read is answered with were the events of the other          *)
(* namespaces never ingested                                                *)
IsolatedBodies(r) ==
    LET db == OwnEvents(Db, r.namespace)
    IN  IF r.kind = "usageQuery"
        THEN {usageQuery(db, <<>>, r.namespace, r.hist.query, now).body}
        ELSE IF r.kind = "usageReport"
        THEN {usageReport(db, <<>>, r.namespace, r.hist.query, pick, now).body : pick \in Picks}
        ELSE {listEvents(db, <<>>, r.namespace, r.hist.query, r.hist.pick, now).body}

(* C20: tenants are isolated on reads: a usage query, usage report or event *)
(* listing of a namespace, computed from storage, is answered as it would   *)
(* be had no event been ingested in any other namespace.                    *)
C20_ReadsIsolated ==
    (/\ resp.kind \in {"usageQuery", "usageReport", "listEvents"}
     /\ resp.status = 200
     /\ ~resp.hist.fromCache)
       => resp.body \in IsolatedBodies(resp)

(* what the code does: namespace a, which has no events, lists an event of  *)
(* namespace b                                                              *)
C20_ListedOtherTenantsEvent ==
    /\ resp.kind = "listEvents"
    /\ resp.namespace = <<"a">>
    /\ ~resp.hist.fromCache
    /\ Len(OwnEvents(Db, <<"a">>).events) = 0
    /\ Len(resp.body.data) = 1
    /\ resp.body.data[1].meterId = 2

----------------------------------------------------------------------------
(* Properties of the meters relation (SpecMeters)                           *)

(* C21: event-type resolution is unambiguous: at most one meter that is not *)
(* deleted exists for a (namespace, eventType), so an event is attributed   *)
(* to the one meter of its type.                                            *)
C21_OneLiveMeterPerEventType ==
    \A i, j \in 1..Len(meters) :
        (/\ meters[i].namespace = meters[j].namespace
         /\ meters[i].eventType = meters[j].eventType
         /\ ~IsDefined(meters[i].deletedAt)
         /\ ~IsDefined(meters[j].deletedAt))
           => i = j

(* what the code does: two live meters with different keys share the event  *)
(* type, and an event of the type goes to the one the engine returns first  *)
C21_AttributedToEitherMeter ==
    /\ resp.kind = "event"
    /\ resp.status = 201
    /\ Cardinality(resp.hist.live) = 2
    /\ LastEvent.meterId = meters[2].id
    /\ meters[1].eventType = meters[2].eventType

(* C23: no two meter rows of a namespace share a key; a POST /meters whose  *)
(* key is present in the namespace is answered 409 METER_ALREADY_EXISTS and *)
(* inserts or changes no row.                                               *)
C23_MeterKeyUnique ==
    /\ \A i, j \in 1..Len(meters) :
          (meters[i].namespace = meters[j].namespace /\ meters[i].key = meters[j].key)
             => i = j
    /\ (resp.kind = "createMeter" /\ resp.hist.present)
          => /\ resp.status = 409
             /\ resp.code = "METER_ALREADY_EXISTS"
             /\ resp.hist.dbSame
    /\ (resp.kind = "createMeter" /\ ~resp.hist.present) => resp.status = 201

C23_DuplicateKeyRefused ==
    /\ resp.kind = "createMeter"
    /\ resp.status = 409
    /\ resp.hist.present
    /\ Len(meters) = 2

----------------------------------------------------------------------------
(* SpecReport: usage reports over a database of up to twelve subjects, the  *)
(* first of them with several events                                        *)

MaxReportSubjects == 12
MaxRepeats == 2

(* subject k sends one event of value k; then the first subject sends       *)
(* `repeats` events of value 20                                             *)
ReportFeed(n, repeats) ==
    [k \in 1..(n + repeats) |->
        IF k <= n
        THEN UsageEvent("s" \o ToString(k), "api_call", At(10, 0, 5, 0), k)
        ELSE UsageEvent("s1", "api_call", At(10, 0, 45, 0), 20)]

ReportSubjectCounts == {2, TopSubjectsLimit + 1, MaxReportSubjects}

(* the id of the subject row of "s1": the first row inserted after the meter *)
FirstSubjectId == 2

ReportQueries ==
    {Query(Some(1), Undefined, Whole[1], Whole[2], Undefined, <<>>),
     Query(Undefined, Undefined, Whole[1], Whole[2], Undefined, <<>>),
     Query(Some(1), Some(FirstSubjectId), Whole[1], Whole[2], Undefined, <<>>)}

InitReport ==
    \E n \in ReportSubjectCounts, repeats \in 0..MaxRepeats, agg \in {"SUM", "COUNT"} :
      \E st \in {ingestBatchEvents(
                    [meters |-> <<UsageMeter(1, "m1", agg, "api_call")>>,
                     subjects |-> <<>>, events |-> <<>>, nextId |-> 1],
                    <<"a">>, ReportFeed(n, repeats), "first", StartTime)} :
        /\ meters = st.db.meters
        /\ subjects = st.db.subjects
        /\ events = st.db.events
        /\ nextId = st.db.nextId
        /\ kv = <<>>
        /\ now = StartTime
        /\ resp = NoResp
        /\ idem = [x \in Namespaces \X IdemKeys |-> NoIdem]
        /\ calls = <<>>
        /\ kvUp = TRUE

NextReport ==
    \E query \in ReportQueries, pick \in Picks : UsageReport(<<"a">>, query, pick)

SpecReport == InitReport /\ [][NextReport]_vars

(* the events a report's filters keep *)
ReportMatched ==
    LET q == resp.hist.query
    IN  {i \in 1..Len(events) :
            /\ DateLeq(NewDate(Get(q.from)), events[i].at)
            /\ DateLeq(events[i].at, NewDate(Get(q.to)))
            /\ IsDefined(q.meterId) => events[i].meterId = Get(q.meterId)
            /\ IsDefined(q.subjectId) => events[i].subjectId = Get(q.subjectId)}

ReportValue(positions) ==
    IF CountMeterAsked THEN Cardinality(positions) ELSE SumValues(events, positions)

(* C22: a report computed from storage has total = the COUNT-or-SUM         *)
(* aggregate of the events matching its filters within [from, to], and      *)
(* topSubjects of at most 10 entries, one per subject, each with the        *)
(* subject's aggregate, in descending order of value, no subject left out   *)
(* having a larger value than one listed.                                   *)
C22_ReportTotalAndTopSubjects ==
    (resp.kind = "usageReport" /\ resp.status = 200 /\ ~resp.hist.fromCache)
       => LET top == resp.body.topSubjects
              Of(id) == {i \in ReportMatched : events[i].subjectId = id}
              ids == {events[i].subjectId : i \in ReportMatched}
              listed == {top[k].subjectId : k \in 1..Len(top)}
          IN  /\ resp.body.total = ReportValue(ReportMatched)
              /\ Len(top) = Min(TopSubjectsLimit, Cardinality(ids))
              /\ Cardinality(listed) = Len(top)
              /\ listed \subseteq ids
              /\ \A k \in 1..Len(top) : top[k].value = ReportValue(Of(top[k].subjectId))
              /\ \A k \in 1..(Len(top) - 1) : top[k].value >= top[k + 1].value
              /\ \A id \in ids \ listed :
                    \A k \in 1..Len(top) : ReportValue(Of(id)) <= top[k].value

(* what the code does: of eleven subjects the one with the largest sum is   *)
(* left out, its rows being ordered by the value of its first event         *)
C22_LargestSubjectLeftOut ==
    /\ resp.kind = "usageReport"
    /\ ~resp.hist.fromCache
    /\ resp.hist.query.meterId = Some(1)
    /\ ~IsDefined(resp.hist.query.subjectId)
    /\ ~CountMeterAsked
    /\ Len(resp.body.topSubjects) = TopSubjectsLimit
    /\ \A k \in 1..TopSubjectsLimit : resp.body.topSubjects[k].subjectId # FirstSubjectId
    /\ \A k \in 1..TopSubjectsLimit :
          resp.body.topSubjects[k].value
             < SumValues(events, {i \in 1..Len(events) : events[i].subjectId = FirstSubjectId})
    /\ resp.body.total = SumValues(events, 1..Len(events))

----------------------------------------------------------------------------
(* GET /meters/:idOrSlug and PUT /meters/:id, and SpecCache: the meters of  *)
(* one namespace created, updated, deleted, listed and looked up by id and  *)
(* by slug                                                                  *)

MeterTTL == 300

(* the route parameter of a numeric id *)
IdText(id) == <<ToString(id)>>

(* the select of GET /meters/:idOrSlug: id or key, no deletedAt condition   *)
getMeterFromStorage(db, namespace, idOrSlug, pick) ==
    LET rows == {i \in 1..Len(db.meters) :
                    /\ db.meters[i].namespace = namespace
                    /\ IF IdText(db.meters[i].id) = idOrSlug THEN TRUE
                       ELSE <<db.meters[i].key>> = idOrSlug}
        i == CHOOSE k \in rows : \A q \in rows : IF pick = "first" THEN k <= q ELSE k >= q
    IN  IF rows = {}
        THEN [status |-> 404, code |-> "METER_NOT_FOUND", body |-> <<>>]
        ELSE [status |-> 200, code |-> "",
              body |-> [id |-> db.meters[i].id, namespace |-> db.meters[i].namespace,
                        key |-> db.meters[i].key,
                        aggregation |-> db.meters[i].aggregation,
                        eventType |-> db.meters[i].eventType,
                        valueProperty |-> db.meters[i].valueProperty]]

(* GET /meters/:idOrSlug *)
getMeter(db, store, namespace, idOrSlug, pick, t) ==
    LET cacheKey == createKey("meter", <<namespace, idOrSlug>>)
        cached == cacheGet(store, cacheKey, t)
        found == getMeterFromStorage(db, namespace, idOrSlug, pick)
    IN  IF IsDefined(cached.value)
        THEN [db |-> db, store |-> cached.store, status |-> 200, code |-> "",
              body |-> Get(cached.value), fromCache |-> TRUE]
        ELSE IF found.status = 404
        THEN [db |-> db, store |-> cached.store, status |-> 404, code |-> found.code,
              body |-> <<>>, fromCache |-> FALSE]
        ELSE [db |-> db, store |-> cacheSet(cached.store, cacheKey, found.body, MeterTTL, t),
              status |-> 200, code |-> "", body |-> found.body, fromCache |-> FALSE]

(* PUT /meters/:id; a field the request leaves out keeps its value *)
updateMeter(db, store, namespace, id, data, t) ==
    LET hits == {i \in 1..Len(db.meters) :
                    db.meters[i].id = id /\ db.meters[i].namespace = namespace}
        Set(row) == [row EXCEPT
                        !.aggregation = IF IsDefined(data.aggregation)
                                        THEN Get(data.aggregation) ELSE @,
                        !.eventType = IF IsDefined(data.eventType)
                                      THEN Get(data.eventType) ELSE @,
                        !.valueProperty = IF IsDefined(data.valueProperty)
                                          THEN data.valueProperty ELSE @]
        updated == [i \in 1..Len(db.meters) |->
                        IF i \in hits THEN Set(db.meters[i]) ELSE db.meters[i]]
    IN  IF hits = {}
        THEN [db |-> db, store |-> store, status |-> 404,
              code |-> "METER_NOT_FOUND", body |-> <<>>]
        ELSE [db |-> [db EXCEPT !.meters = updated],
              store |-> cacheDelete(invalidatePattern(store, metersPrefix(namespace)),
                                    createKey("meter", <<namespace, IdText(id)>>)),
              status |-> 200, code |-> "",
              body |-> Set(db.meters[CHOOSE i \in hits : TRUE])]

GetMeter(namespace, idOrSlug, pick) ==
    \E o \in {getMeter(Db, kv, namespace, idOrSlug, pick, now)} :
        /\ SetDb(o.db)
        /\ kv' = o.store
        /\ resp' = [kind |-> "getMeter", namespace |-> namespace, status |-> o.status,
                    code |-> o.code, body |-> o.body,
                    hist |-> [idOrSlug |-> idOrSlug, pick |-> pick,
                              fromCache |-> o.fromCache]]
        /\ UNCHANGED <<now, idem, envVars>>

UpdateMeter(namespace, id, data) ==
    \E o \in {updateMeter(Db, kv, namespace, id, data, now)} :
        /\ SetDb(o.db)
        /\ kv' = o.store
        /\ resp' = [kind |-> "updateMeter", namespace |-> namespace, status |-> o.status,
                    code |-> o.code, body |-> o.body, hist |-> [data |-> data]]
        /\ UNCHANGED <<now, idem, envVars>>

CacheNamespace == <<"a">>
CacheMeterInputs == {CountMeter("m1", "api_call")}
CacheUpdates ==
    {[aggregation |-> Some("SUM"), eventType |-> Undefined, valueProperty |-> Undefined]}
CacheLookups == {IdText(1), <<"m1">>}

NextCache ==
    \/ \E data \in CacheMeterInputs : CreateMeter(CacheNamespace, data)
    \/ \E id \in 1..nextId, data \in CacheUpdates : UpdateMeter(CacheNamespace, id, data)
    \/ \E id \in 1..nextId : DeleteMeter(CacheNamespace, id)
    \/ \E includeDeleted \in BOOLEAN : ListMeters(CacheNamespace, includeDeleted)
    \/ \E idOrSlug \in CacheLookups : GetMeter(CacheNamespace, idOrSlug, "first")
    \/ Tick(MeterTTL \div 2, MeterTTL)

SpecCache == Init /\ [][NextCache]_vars

(* C24: an entry cached before a successful write of the namespace answers  *)
(* no later list or get: a GET /meters/:idOrSlug or GET /meters answered    *)
(* from the cache has the body storage gives at that time.                  *)
C24_NoAnswerFromBeforeTheWrite ==
    /\ (resp.kind = "getMeter" /\ resp.status = 200 /\ resp.hist.fromCache)
          => resp.body = getMeterFromStorage(Db, resp.namespace, resp.hist.idOrSlug,
                                             resp.hist.pick).body
    /\ (resp.kind = "listMeters" /\ resp.status = 200)
          => resp.body.data =
                {meters[i].id : i \in {k \in 1..Len(meters) :
                    /\ meters[k].namespace = resp.namespace
                    /\ (~resp.hist.includeDeleted => ~IsDefined(meters[k].deletedAt))}}

(* what the code does: the lookup by slug after an update of the meter is   *)
(* answered with the aggregation of before the update                       *)
C24_SlugAnsweredFromBeforeUpdate ==
    /\ resp.kind = "getMeter"
    /\ resp.status = 200
    /\ resp.hist.fromCache
    /\ resp.hist.idOrSlug = <<"m1">>
    /\ resp.body.aggregation = "COUNT"
    /\ \E i \in 1..Len(meters) :
          meters[i].key = "m1" /\ meters[i].id = resp.body.id /\ meters[i].aggregation = "SUM"

----------------------------------------------------------------------------
(* The rate-limit middleware with its KV fallback, and SpecRateLimit: the   *)
(* requests of one client on one route over two one-minute windows.  A      *)
(* request reads its bucket when it arrives and writes it back at its next  *)
(* step; requests in flight interleave at that await.  Millisecond instants *)
(* are whole seconds here: floor((timePassed / 60000) * limit) is           *)
(* (seconds passed * limit) \div 60.                                        *)

RequestsPerMinute == 4
BurstLimit == 2
BucketTTL == 120
WindowLength == 60
MaxRequests == 5
MaxInFlight == 2

windowStartOf(t) == (t \div WindowLength) * WindowLength

(* `${key}:${windowStart}` *)
bucketKey(key, t) == key \o <<":", ToString(windowStartOf(t))>>

(* kv.get(bucketKey, "json") *)
kvGetBucket(store, key, t) ==
    IF bucketKey(key, t) \in DOMAIN store
    THEN Some(store[bucketKey(key, t)].data) ELSE Undefined

(* the bucket after the request, and whether the request is allowed *)
checkKVRateLimit(bucketData, t, limit, burst) ==
    LET tokensToAdd == IF IsDefined(bucketData)
                       THEN ((t - Get(bucketData).lastRefill) * limit) \div WindowLength
                       ELSE 0
        tokens == IF IsDefined(bucketData)
                  THEN Min(burst, Get(bucketData).tokens + tokensToAdd) ELSE burst
        requests == IF IsDefined(bucketData) THEN Get(bucketData).requests ELSE 0
        lastRefill == IF IsDefined(bucketData) THEN t ELSE windowStartOf(t)
        allowed == tokens > 0
    IN  [allowed |-> allowed,
         bucket |-> [tokens |-> IF allowed THEN tokens - 1 ELSE tokens,
                     lastRefill |-> lastRefill, requests |-> requests + 1]]

RateLimitKey == <<"rate_limit", ":", "10.0.0.1", ":", "/api/v1/events">>

(* a request arrives: Date.now() is taken and the bucket read *)
RateLimitArrive(key) ==
    /\ Len(calls) < MaxRequests
    /\ Cardinality({p \in DOMAIN calls : calls[p].pc = "put"}) < MaxInFlight
    /\ calls' = Append(calls, [key |-> key, pc |-> "put", at |-> now,
                               bucketData |-> kvGetBucket(kv, key, now),
                               allowed |-> FALSE, status |-> 0, code |-> ""])
    /\ UNCHANGED <<dbVars, kv, now, resp, idem, kvUp>>

(* the request writes the bucket back and is answered 429 or passed on *)
RateLimitPut(p) ==
    /\ calls[p].pc = "put"
    /\ \E o \in {checkKVRateLimit(calls[p].bucketData, calls[p].at,
                                  RequestsPerMinute, BurstLimit)} :
          /\ kv' = [k \in DOMAIN kv \cup {bucketKey(calls[p].key, calls[p].at)} |->
                       IF k = bucketKey(calls[p].key, calls[p].at)
                       THEN [data |-> o.bucket, timestamp |-> now, ttl |-> BucketTTL]
                       ELSE kv[k]]
          /\ calls' = [calls EXCEPT ![p] =
                          [@ EXCEPT !.pc = "done", !.allowed = o.allowed,
                                    !.status = IF o.allowed THEN 200 ELSE 429,
                                    !.code = IF o.allowed THEN ""
                                             ELSE "RATE_LIMIT_EXCEEDED"]]
    /\ UNCHANGED <<dbVars, now, resp, idem, kvUp>>

NextRateLimit ==
    \/ RateLimitArrive(RateLimitKey)
    \/ \E p \in DOMAIN calls : RateLimitPut(p)
    \/ Tick(WindowLength \div RequestsPerMinute, WindowLength)

SpecRateLimit == Init /\ [][NextRateLimit]_vars

(* the requests answered so far that were let through *)
LetThrough == {p \in DOMAIN calls : calls[p].pc = "done" /\ calls[p].allowed}

(* C25: per rate-limit key, at most requestsPerMinute requests are let      *)
(* through within one one-minute window and at most burstLimit at the same  *)
(* instant; every other request is answered 429 RATE_LIMIT_EXCEEDED.        *)
C25_AtMostLimitPerWindow ==
    /\ \A p \in DOMAIN calls :
          Cardinality({q \in LetThrough :
                          /\ calls[q].key = calls[p].key
                          /\ windowStartOf(calls[q].at) = windowStartOf(calls[p].at)})
             <= RequestsPerMinute
    /\ \A p \in DOMAIN calls :
          Cardinality({q \in LetThrough :
                          calls[q].key = calls[p].key /\ calls[q].at = calls[p].at})
             <= BurstLimit
    /\ \A p \in DOMAIN calls :
          (calls[p].pc = "done" /\ ~calls[p].allowed)
             => calls[p].status = 429 /\ calls[p].code = "RATE_LIMIT_EXCEEDED"

(* what the code does: five requests handled one after the other within    *)
(* one window of a limit of four are all let through, the burst at the      *)
(* window's start and one refilled token per quarter of a minute            *)
C25_FiveOfFourLetThrough ==
    /\ Len(calls) = RequestsPerMinute + 1
    /\ LetThrough = DOMAIN calls
    /\ \A p \in DOMAIN calls : windowStartOf(calls[p].at) = StartTime
    /\ bucketKey(RateLimitKey, StartTime) \in DOMAIN kv
    /\ kv[bucketKey(RateLimitKey, StartTime)].data.requests = RequestsPerMinute + 1

----------------------------------------------------------------------------
(* Replays of keyed batches (SpecBatch) *)

(* the live idempotency entry of a batch key of namespace "a" *)
StoredBatch(key) == checkIdempotency(kv, key, <<"a">>, "batch-events", now)

----------------------------------------------------------------------------
(* Failed single-event ingests and their idempotency keys (Spec) *)

(* the live idempotency entry of a single-event key *)
StoredSingle(namespace, key) == checkIdempotency(kv, key, namespace, "single-event", now)

(* C27: a keyed POST /events stores its result only when the ingest         *)
(* succeeded: after a failed one no entry is under the key, after a         *)
(* successful one the entry holds its eventId for IdempotencyTTL seconds;   *)
(* and a request that finds no                                              *)
(* entry under its key is processed as a fresh ingest, 201 with one new     *)
(* Event row and its own result stored when a meter matches, otherwise      *)
(* failing again.                                                           *)
C27_StoredOnlyAfterSuccess ==
    /\ [](\A ns \in Namespaces, key \in IdemKeys :
            (resp.kind = "event" /\ resp.namespace = ns /\ resp.hist.key = Some(key))
               => /\ resp.status = 500 => ~IsDefined(StoredSingle(ns, key).value)
                  /\ (resp.status = 201 /\ now < resp.body.timestamp + IdempotencyTTL)
                        => /\ IsDefined(StoredSingle(ns, key).value)
                           /\ Get(StoredSingle(ns, key).value)
                                 = [eventId |-> resp.body.eventId, processed |-> TRUE])
    /\ [][\A ns \in Namespaces, key \in IdemKeys :
            (/\ ~IsDefined(StoredSingle(ns, key).value)
             /\ resp'.kind = "event" /\ resp'.namespace = ns
             /\ resp'.hist.key = Some(key)
             /\ resp'.code \notin {"INVALID_IDEMPOTENCY_KEY", "VALIDATION_ERROR"}
             /\ now' = now)
               => IF resp'.hist.matching = {}
                  THEN /\ resp'.status = 500
                       /\ resp'.hist.newEvents = 0
                       /\ \A k \in DOMAIN kv' : k \in DOMAIN kv
                  ELSE /\ resp'.status = 201
                       /\ resp'.hist.newEvents = 1
                       /\ events'[Len(events')].id = resp'.body.eventId]_vars

(* the keyed request of namespace "b" succeeds after an earlier request of  *)
(* that namespace, sent under the same key, failed for want of a meter and  *)
(* left only its subject                                                    *)
C27_FreshAfterFailure ==
    /\ resp.kind = "event"
    /\ resp.namespace = <<"b">>
    /\ resp.hist.key = Some(<<"k">>)
    /\ resp.status = 201
    /\ resp.hist.subjectKnown
    /\ resp.hist.newEvents = 1
    /\ \E i \in 1..Len(subjects) :
          /\ subjects[i].namespace = <<"b">>
          /\ {j \in 1..Len(events) : events[j].subjectId = subjects[i].id} = {Len(events)}
    /\ Get(StoredSingle(<<"b">>, <<"k">>).value).eventId = resp.body.eventId

----------------------------------------------------------------------------
(* SpecRollback: events and batches for subjects seen and unseen, before    *)
(* and after the meter of their type exists                                 *)

RollbackPayloads ==
    {Payload("alice", "api_call"), Payload("bob", "tokens"), Payload("bob", "api_call")}

RollbackBatches ==
    {<<Payload("alice", "api_call"), Payload("bob", "tokens")>>,
     <<Payload("bob", "tokens")>>,
     <<Payload("carol", "tokens"), Payload("bob", "tokens"), Payload("carol", "tokens")>>}

NextRollback ==
    \/ \E data \in MeterInputs : CreateMeter(<<"a">>, data)
    \/ \E data \in RollbackPayloads :
          /\ Len(events) < MaxEvents
          /\ PostEvent(<<"a">>, Undefined, data, "first")
    \/ \E batch \in RollbackBatches : PostBatch(<<"a">>, Undefined, batch, "first")

SpecRollback == Init /\ [][NextRollback]_vars

(* the subject keys of a namespace in a subjects relation *)
KeysIn(rows, namespace) ==
    {rows[i].key : i \in {k \in 1..Len(rows) : rows[k].namespace = namespace}}

(* C28: an ingest that fails because no meter matches the event type        *)
(* inserts no Event row and leaves the earlier rows as they were, but the   *)
(* Subject row created for a key not seen before stays; a batch inserts one *)
(* Event row per event with a meter and one Subject row per unseen key of   *)
(* any of its events, the failed ones included.                             *)
C28_SubjectStaysAfterFailure ==
    [][/\ (resp'.kind = "event" /\ resp'.status = 500 /\ resp'.hist.matching = {})
             => /\ events' = events
                /\ SubSeq(subjects', 1, Len(subjects)) = subjects
                /\ KeysIn(subjects', resp'.namespace)
                      = KeysIn(subjects, resp'.namespace) \cup {resp'.hist.data.subject}
                /\ Len(subjects') = Len(subjects)
                      + (IF resp'.hist.data.subject \in KeysIn(subjects, resp'.namespace)
                         THEN 0 ELSE 1)
       /\ (resp'.kind = "batch" /\ resp'.status \in {201, 207})
             => LET sent == {resp'.hist.subjects[k] : k \in 1..resp'.hist.size}
                IN  /\ Len(events') = Len(events) + resp'.hist.size
                                         - Cardinality(resp'.hist.noMeter)
                    /\ SubSeq(events', 1, Len(events)) = events
                    /\ SubSeq(subjects', 1, Len(subjects)) = subjects
                    /\ KeysIn(subjects', resp'.namespace)
                          = KeysIn(subjects, resp'.namespace) \cup sent
                    /\ Len(subjects') = Len(subjects)
                          + Cardinality(sent \ KeysIn(subjects, resp'.namespace))]_vars

(* a batch whose three events all failed left the two subjects they named,  *)
(* and no event                                                             *)
C28_SubjectsOfFailedBatchStay ==
    /\ resp.kind = "batch"
    /\ resp.status = 207
    /\ resp.hist.size = 3
    /\ resp.hist.noMeter = {1, 2, 3}
    /\ resp.hist.newEvents = 0
    /\ resp.hist.newSubjects = 2
    /\ KeysIn(subjects, <<"a">>) = {"carol", "bob"}
    /\ events = <<>>

----------------------------------------------------------------------------
(* SpecTotals: usage queries of every window size and usage reports over    *)
(* the same filters, on databases holding a prefix of the feed              *)

WindowSizes == {"SECOND", "MINUTE", "HOUR", "DAY", "MONTH"}

(* meterId, subjectId, from, to *)
TotalsFilters ==
    {<<Some(1), Undefined, Whole[1], Whole[2]>>,
     <<Some(2), Undefined, Whole[1], Whole[2]>>,
     <<Some(1), Some(AliceId), Inner[1], Inner[2]>>,
     <<Undefined, Undefined, Month[1], Month[2]>>}

FilterQuery(f, windowSize) == Query(f[1], f[2], f[3], f[4], windowSize, <<>>)

InitTotals ==
    \E n \in 0..Len(UsageFeed), agg \in {"SUM", "COUNT"} :
      \E st \in {ingestBatchEvents(
                    [meters |-> <<UsageMeter(1, "m1", agg, "api_call"),
                                  UsageMeter(2, "m2", "COUNT", "login")>>,
                     subjects |-> <<>>, events |-> <<>>, nextId |-> 2],
                    <<"a">>, SubSeq(UsageFeed, 1, n), "first", StartTime)} :
        /\ meters = st.db.meters
        /\ subjects = st.db.subjects
        /\ events = st.db.events
        /\ nextId = st.db.nextId
        /\ kv = <<>>
        /\ now = StartTime
        /\ resp = NoResp
        /\ idem = [x \in Namespaces \X IdemKeys |-> NoIdem]
        /\ calls = <<>>
        /\ kvUp = TRUE

NextTotals ==
    \/ \E f \in TotalsFilters, windowSize \in {Undefined} \cup {Some(w) : w \in WindowSizes} :
          /\ UsageQuery(<<"a">>, FilterQuery(f, windowSize))
          /\ Cardinality(DOMAIN kv') <= MaxCached
    \/ \E f \in TotalsFilters :
          /\ UsageReport(<<"a">>, FilterQuery(f, Undefined), "first")
          /\ Cardinality(DOMAIN kv') <= MaxCached

SpecTotals == InitTotals /\ [][NextTotals]_vars

RECURSIVE BucketSum(_)
BucketSum(data) ==
    IF Len(data) = 0 THEN 0 ELSE data[1].value + BucketSum(Tail(data))

(* the filters of the request answered *)
Asked == <<resp.hist.query.meterId, resp.hist.query.subjectId,
           resp.hist.query.from, resp.hist.query.to>>

(* C29: on the same stored events and for identical filters, the values of  *)
(* the buckets of a usage query add up to the total of the usage report,    *)
(* for every window size, under COUNT and under SUM: a query computed from  *)
(* storage agrees with the report on its filters, and a report computed     *)
(* from storage agrees with the query of each window size.                  *)
C29_BucketsAddUpToTotal ==
    /\ (resp.kind = "usageQuery" /\ resp.status = 200 /\ ~resp.hist.fromCache)
          => BucketSum(resp.body.data)
                = usageReport(Db, <<>>, resp.namespace, FilterQuery(Asked, Undefined),
                              "first", now).body.total
    /\ (resp.kind = "usageReport" /\ resp.status = 200 /\ ~resp.hist.fromCache)
          => \A w \in WindowSizes :
                BucketSum(usageQuery(Db, <<>>, resp.namespace,
                                     FilterQuery(Asked, Some(w)), now).body.data)
                   = resp.body.total

(* a query over January and February, summing the values of five events,   *)
(* returns two buckets whose values add up to the report's total of 21      *)
C29_TwoBucketsOneTotal ==
    /\ resp.kind = "usageQuery"
    /\ ~resp.hist.fromCache
    /\ ~IsDefined(resp.hist.query.meterId)
    /\ Len(events) = 5
    /\ Len(resp.body.data) = 2
    /\ resp.body.data[1].value = 19
    /\ resp.body.data[2].value = 2
    /\ usageReport(Db, <<>>, <<"a">>, FilterQuery(Asked, Undefined), "first", now).body.total = 21

----------------------------------------------------------------------------
(* POST /meters await by await, and SpecMeterRace: requests in flight that  *)
(* create meters of the same or of different keys and namespaces            *)

MeterUniqueMessage == "UNIQUE constraint failed: meters.namespace, meters.key"

NewMeterCall(namespace, data, environment) ==
    [pc |-> "select", namespace |-> namespace, data |-> data, environment |-> environment,
     id |-> 0, status |-> 0, code |-> "", message |-> "", error |-> ""]

MeterPresent(namespace, key) ==
    \E i \in 1..Len(meters) : meters[i].namespace = namespace /\ meters[i].key = key

(* the select of the existing meter returns: 409 when a row has the key *)
MeterCallSelect(p) ==
    LET call == calls[p]
    IN  /\ call.pc = "select"
        /\ calls' = [calls EXCEPT ![p] =
                        IF MeterPresent(call.namespace, call.data.key)
                        THEN [call EXCEPT !.pc = "done", !.status = 409,
                                          !.code = "METER_ALREADY_EXISTS"]
                        ELSE [call EXCEPT !.pc = "insert"]]
        /\ UNCHANGED <<dbVars, kv, now, resp, idem, kvUp>>

(* the insert returns; unique().on(namespace, key) makes the insert of a    *)
(* second row for the key throw, and the handler's catch rethrows           *)
MeterCallInsert(p) ==
    LET call == calls[p]
        newMeter == [id |-> nextId + 1, namespace |-> call.namespace, key |-> call.data.key,
                     aggregation |-> call.data.aggregation,
                     eventType |-> call.data.eventType,
                     valueProperty |-> call.data.valueProperty, deletedAt |-> Undefined]
    IN  /\ call.pc = "insert"
        /\ IF MeterPresent(call.namespace, call.data.key)
           THEN /\ calls' = [calls EXCEPT ![p] = Failed(call, MeterUniqueMessage)]
                /\ UNCHANGED dbVars
           ELSE /\ meters' = Append(meters, newMeter)
                /\ nextId' = nextId + 1
                /\ calls' = [calls EXCEPT ![p] = [call EXCEPT !.pc = "invalidate",
                                                              !.id = nextId + 1]]
                /\ UNCHANGED <<subjects, events>>
        /\ UNCHANGED <<kv, now, resp, idem, kvUp>>

(* invalidatePattern returns and the request is answered 201 *)
MeterCallInvalidate(p) ==
    LET call == calls[p]
    IN  /\ call.pc = "invalidate"
        /\ kv' = invalidatePattern(kv, metersPrefix(call.namespace))
        /\ calls' = [calls EXCEPT ![p] = [call EXCEPT !.pc = "done", !.status = 201]]
        /\ UNCHANGED <<dbVars, now, resp, idem, kvUp>>

InitMeterRace ==
    /\ meters = <<>>
    /\ subjects = <<>>
    /\ events = <<>>
    /\ nextId = 0
    /\ kv = <<>>
    /\ now = StartTime
    /\ resp = NoResp
    /\ idem = [x \in Namespaces \X IdemKeys |-> NoIdem]
    /\ kvUp = TRUE
    /\ calls \in {[p \in 1..MaxDeliveries |->
                      NewMeterCall(IF p = 1 THEN <<"a">> ELSE namespace,
                                   IF p = 1 THEN CountMeter("m1", "api_call") ELSE data,
                                   environment)] :
                    namespace \in Namespaces, data \in MetersMeterInputs,
                    environment \in Environments}

NextMeterRace ==
    \E p \in DOMAIN calls :
        \/ MeterCallSelect(p)
        \/ MeterCallInsert(p)
        \/ MeterCallInvalidate(p)

SpecMeterRace == InitMeterRace /\ [][NextMeterRace]_vars

(* the requests for one (namespace, key) *)
SameMeter(p) ==
    {q \in DOMAIN calls :
        calls[q].namespace = calls[p].namespace /\ calls[q].data.key = calls[p].data.key}

(* C30: when POST /meters requests for one key of a namespace run together, *)
(* exactly one meter row has the key, one request is answered 201 and every *)
(* other 409 METER_ALREADY_EXISTS, never another error.                     *)
C30_OneCreatedOthersConflict ==
    /\ \A i, j \in 1..Len(meters) :
          (meters[i].namespace = meters[j].namespace /\ meters[i].key = meters[j].key)
             => i = j
    /\ \A p \in DOMAIN calls :
          calls[p].pc = "done"
             => /\ calls[p].status \in {201, 409}
                /\ calls[p].status = 409 => calls[p].code = "METER_ALREADY_EXISTS"
    /\ AllDone
          => \A p \in DOMAIN calls :
                Cardinality({q \in SameMeter(p) : calls[q].status = 201}) = 1

(* what the code does: both requests find no row, one inserts, and the      *)
(* other's insert fails on the unique index and is answered 500             *)
C30_LoserAnswered500 ==
    /\ AllDone
    /\ Len(meters) = 1
    /\ \E p, q \in DOMAIN calls :
          /\ calls[p].status = 201
          /\ calls[q].status = 500
          /\ calls[q].code = "INTERNAL_ERROR"
          /\ calls[q].error = MeterUniqueMessage
          /\ q \in SameMeter(p)

=============================================================================
